---- MODULE Spec2Model ----
(***************************************************************************)
(* Schema registration and documentation assembly of @lonestone/nzoth.    *)
(* The registry (SCHEMA_STORAGE, GLOBAL_SCHEMA_REGISTRY, OPENAPI_CACHE)    *)
(* and the functions over it are modelled from                            *)
(* packages/core/src/openapi/openapi.spec.ts lines 409-625; the response  *)
(* interceptor from packages/core/src/validation/typed-route.decorator.ts *)
(***************************************************************************)
EXTENDS Integers, Sequences, FiniteSets, TLC

(***************************************************************************)
(* Bounds of the model.                                                    *)
(***************************************************************************)
\* number of registering calls (getOpenApiSchema, registerSchemaRef,
\* registerSchema, autoRegisterSchema) in one run
MaxCalls == 2

(***************************************************************************)
(* SchemaObject and ReferenceObject values.                                *)
(* A SchemaObject is a record with a "type" and, optionally, "title",      *)
(* "properties" (the entries of the JS object in insertion order, each     *)
(* [key, value]), "items" and "defId" (the value of _def.openapi.id).      *)
(* A ReferenceObject is [ref |-> <<"#", "components", "schemas", name>>],  *)
(* the segments of the string '#/components/schemas/<name>'.               *)
(***************************************************************************)
SchemaType == {"Body", "Query", "Route", "Form", "Other"}

\* Object.values(SCHEMA_STORAGE): the category maps in declaration order
StorageOrder == <<"Body", "Query", "Route", "Form", "Other">>

Ref(name) == [ref |-> <<"#", "components", "schemas", name>>]

IsRef(v) == "ref" \in DOMAIN v

RefTarget(r) == r.ref[4]

\* obj.title is truthy
HasTitle(obj) == "title" \in DOMAIN obj /\ obj.title # ""

\* (obj as any)._def?.openapi?.id is truthy
HasDefId(obj) == "defId" \in DOMAIN obj /\ obj.defId # ""

P(k, v) == [key |-> k, value |-> v]

(***************************************************************************)
(* Map.prototype.set on a Map held as a function from its keys.            *)
(***************************************************************************)
EmptyMap == [k \in {} |-> k]

MapSet(m, k, v) == [x \in (DOMAIN m) \cup {k} |-> IF x = k THEN v ELSE m[x]]

\* a sequence of writes [name, schema] applied in order
RECURSIVE MapSetAll(_, _)
MapSetAll(m, writes) ==
  IF writes = <<>> THEN m
  ELSE MapSetAll(MapSet(m, Head(writes).name, Head(writes).schema), Tail(writes))

(***************************************************************************)
(* cleanupSchema, the closure of registerSchemaRef: the value it returns   *)
(* (cleanupSchema) and the registrations it performs on the way, in order  *)
(* (cleanupWrites).  A node whose title (or _def.openapi.id) differs from  *)
(* name is written as it is, not cleaned, and replaced by a reference;     *)
(* the walk does not descend into it.                                      *)
(***************************************************************************)
RECURSIVE cleanupSchema(_, _)
cleanupSchema(obj, name) ==
  IF HasTitle(obj) /\ obj.title # name THEN Ref(obj.title)
  ELSE IF HasDefId(obj) /\ obj.defId # name THEN Ref(obj.defId)
  ELSE
    LET cleanedProps ==
          [i \in DOMAIN obj.properties |->
             LET e == obj.properties[i] IN
             IF ~IsRef(e.value) THEN P(e.key, cleanupSchema(e.value, name))
             ELSE e]
        withProps ==
          IF "properties" \in DOMAIN obj
          THEN [obj EXCEPT !.properties = cleanedProps]
          ELSE obj
    IN IF "items" \in DOMAIN obj /\ ~IsRef(obj.items)
       THEN [withProps EXCEPT !.items = cleanupSchema(obj.items, name)]
       ELSE withProps

RECURSIVE cleanupWrites(_, _)
RECURSIVE cleanupWritesOfProps(_, _)
cleanupWrites(obj, name) ==
  IF HasTitle(obj) /\ obj.title # name THEN << [name |-> obj.title, schema |-> obj] >>
  ELSE IF HasDefId(obj) /\ obj.defId # name THEN << [name |-> obj.defId, schema |-> obj] >>
  ELSE
    (IF "properties" \in DOMAIN obj
     THEN cleanupWritesOfProps(obj.properties, name) ELSE <<>>)
    \o
    (IF "items" \in DOMAIN obj /\ ~IsRef(obj.items)
     THEN cleanupWrites(obj.items, name) ELSE <<>>)

cleanupWritesOfProps(props, name) ==
  IF props = <<>> THEN <<>>
  ELSE (IF ~IsRef(Head(props).value)
        THEN cleanupWrites(Head(props).value, name) ELSE <<>>)
       \o cleanupWritesOfProps(Tail(props), name)

(***************************************************************************)
(* The registry functions, as functions from the registry                  *)
(* st = [storage, global, cache] to [st, ret].                             *)
(***************************************************************************)
\* Faulty variant: the registration is filed under its category only, and the
\* global registry is left as it was.
registerSchemaRefCategoryOnly(st, name, schema, type) ==
  LET writes == cleanupWrites(schema, name)
      cleanedSchema == cleanupSchema(schema, name)
      hoisted == [st.storage EXCEPT !["Other"] = MapSetAll(@, writes)]
  IN [st |-> [st EXCEPT
                !.storage = [hoisted EXCEPT ![type] = MapSet(@, name, cleanedSchema)]],
      ret |-> Ref(name),
      argument |-> schema]

\* Faulty variant: a name that is registered already keeps its first value in
\* the global registry.
registerSchemaRefKeepFirst(st, name, schema, type) ==
  LET writes == cleanupWrites(schema, name)
      cleanedSchema == cleanupSchema(schema, name)
      hoisted == [st.storage EXCEPT !["Other"] = MapSetAll(@, writes)]
      global == MapSetAll(st.global, writes)
  IN [st |-> [st EXCEPT
                !.storage = [hoisted EXCEPT ![type] = MapSet(@, name, cleanedSchema)],
                !.global = IF name \in DOMAIN global THEN global
                           ELSE MapSet(global, name, cleanedSchema)],
      ret |-> Ref(name),
      argument |-> schema]

\* Faulty variant: the structures cleanupSchema replaces by references are
\* written to the Other category map only, not to the global registry.
registerSchemaRefHoistOtherOnly(st, name, schema, type) ==
  LET writes == cleanupWrites(schema, name)
      cleanedSchema == cleanupSchema(schema, name)
      hoisted == [st.storage EXCEPT !["Other"] = MapSetAll(@, writes)]
  IN [st |-> [st EXCEPT
                !.storage = [hoisted EXCEPT ![type] = MapSet(@, name, cleanedSchema)],
                !.global = MapSet(st.global, name, cleanedSchema)],
      ret |-> Ref(name),
      argument |-> schema]

\* Faulty variant: the name holds the structure as it was passed, not what
\* cleanupSchema returned for it.
registerSchemaRefInline(st, name, schema, type) ==
  LET writes == cleanupWrites(schema, name)
      hoisted == [st.storage EXCEPT !["Other"] = MapSetAll(@, writes)]
  IN [st |-> [st EXCEPT
                !.storage = [hoisted EXCEPT ![type] = MapSet(@, name, schema)],
                !.global = MapSet(MapSetAll(st.global, writes), name, schema)],
      ret |-> Ref(name),
      argument |-> schema]

\* Faulty variant: cleanupSchema works on the structure itself instead of the
\* copy { ...obj }, so that a structure it descends into holds afterwards what
\* the walk assigned.
registerSchemaRefInPlace(st, name, schema, type) ==
  LET writes == cleanupWrites(schema, name)
      cleanedSchema == cleanupSchema(schema, name)
      hoisted == [st.storage EXCEPT !["Other"] = MapSetAll(@, writes)]
  IN [st |-> [st EXCEPT
                !.storage = [hoisted EXCEPT ![type] = MapSet(@, name, cleanedSchema)],
                !.global = MapSet(MapSetAll(st.global, writes), name, cleanedSchema)],
      ret |-> Ref(name),
      argument |-> IF IsRef(cleanedSchema) THEN schema ELSE cleanedSchema]

\* st is the registry after the call, ret the $ref returned, and argument the
\* structure that was passed as the call leaves it: cleanupSchema assigns to
\* its copy cleaned and to the fresh accumulator of reduce only.
registerSchemaRef(st, name, schema, type) ==
  LET writes == cleanupWrites(schema, name)
      cleanedSchema == cleanupSchema(schema, name)
      hoisted == [st.storage EXCEPT !["Other"] = MapSetAll(@, writes)]
  IN [st |-> [st EXCEPT
                !.storage = [hoisted EXCEPT ![type] = MapSet(@, name, cleanedSchema)],
                !.global = MapSet(MapSetAll(st.global, writes), name, cleanedSchema)],
      ret |-> Ref(name),
      argument |-> schema]


(***************************************************************************)
(* A Zod schema instance z is [zid, schema, components] and optionally     *)
(* defId: zid is the object identity the WeakMap OPENAPI_CACHE is keyed    *)
(* by, defId the value of z._def.openapi.id, and createSchema(z) (the      *)
(* structural conversion of zod-openapi) yields z.schema and the entries   *)
(* of components.schemas in order (none when components is absent).        *)
(***************************************************************************)
createSchema(z) == [schema |-> z.schema, components |-> z.components]

\* (schema as any)._def?.openapi?.id || schemaObject.title ; "" when falsy
SchemaIdOf(z, schemaObject) ==
  IF HasDefId(z) THEN z.defId
  ELSE IF HasTitle(schemaObject) THEN schemaObject.title
  ELSE ""

\* the registrations of getOpenApiSchema, on a cache hit and on a miss alike:
\* the id or title into Other and the global registry, the components
\* into Other only
StoreConverted(st, schemaId, schemaObject, components) ==
  LET named == IF schemaId # ""
               THEN [st EXCEPT !.storage["Other"] = MapSet(@, schemaId, schemaObject),
                               !.global = MapSet(@, schemaId, schemaObject)]
               ELSE st
  IN [named EXCEPT !.storage["Other"] = MapSetAll(@, components)]

\* Faulty variant: a cache hit returns the cached structure and registers
\* nothing.
getOpenApiSchemaSilentHit(st, z) ==
  IF z.zid \in DOMAIN st.cache
  THEN [st |-> st, ret |-> st.cache[z.zid].schema]
  ELSE LET result == createSchema(z)
           schemaId == SchemaIdOf(z, result.schema)
           stored == StoreConverted(st, schemaId, result.schema, result.components)
       IN [st |-> [stored EXCEPT !.cache = MapSet(@, z.zid, result)],
           ret |-> result.schema]

getOpenApiSchema(st, z) ==
  IF z.zid \in DOMAIN st.cache
  THEN LET cached == st.cache[z.zid]
           cachedSchemaId == SchemaIdOf(z, cached.schema)
       IN [st |-> StoreConverted(st, cachedSchemaId, cached.schema, cached.components),
           ret |-> cached.schema]
  ELSE LET result == createSchema(z)
           schemaObject == result.schema
           schemaId == SchemaIdOf(z, schemaObject)
           stored == StoreConverted(st, schemaId, schemaObject, result.components)
       IN [st |-> [stored EXCEPT !.cache = MapSet(@, z.zid, result)],
           ret |-> schemaObject]

\* The structure a call passes to registerSchemaRef is the object the cache
\* holds for the instance: the registry after the call r, with the cache entry
\* as the call left that object.
heldByCache(r, zid) ==
  [r.st EXCEPT !.cache = [@ EXCEPT ![zid] = [@ EXCEPT !.schema = r.argument]]]

\* Faulty variant: the category argument is dropped, the title is registered
\* under Other.
autoRegisterSchemaOther(st, z, type) ==
  LET converted == getOpenApiSchema(st, z)
      openApiSchema == converted.ret
  IN IF HasTitle(openApiSchema)
     THEN [st |-> registerSchemaRef(converted.st, openApiSchema.title, openApiSchema, "Other").st,
           ret |-> openApiSchema]
     ELSE [st |-> converted.st, ret |-> openApiSchema]

autoRegisterSchema(st, z, type) ==
  LET converted == getOpenApiSchema(st, z)
      openApiSchema == converted.ret
  IN IF HasTitle(openApiSchema)
     THEN [st |-> heldByCache(registerSchemaRef(converted.st, openApiSchema.title,
                                                openApiSchema, type), z.zid),
           ret |-> openApiSchema]
     ELSE [st |-> converted.st, ret |-> openApiSchema]

\* the value undefined, which registerSchema returns for a schema that has
\* neither id nor title
Undefined == [undefined |-> TRUE]

registerSchema(st, z, type) ==
  LET converted == getOpenApiSchema(st, z)
      openApiSchema == converted.ret
      schemaId == SchemaIdOf(z, openApiSchema)
  IN IF schemaId # ""
     THEN LET Registered(r) == [st |-> heldByCache(r, z.zid), ret |-> r.ret]
          IN Registered(registerSchemaRef(converted.st, schemaId, openApiSchema, type))
     ELSE [st |-> converted.st, ret |-> Undefined]

(***************************************************************************)
(* createOpenApiDocument.  base is the document of                         *)
(* SwaggerModule.createDocument(app, swaggerConfig): a record with paths   *)
(* and, optionally, components; components is a map from section name to  *)
(* section, "schemas" among them or not.                                   *)
(***************************************************************************)
\* the entries of one Map copied into schemas: schemas[name] = schema
CopyEntries(schemas, map) ==
  [n \in (DOMAIN schemas) \cup (DOMAIN map) |->
     IF n \in DOMAIN map THEN map[n] ELSE schemas[n]]

RECURSIVE CopyStorage(_, _, _)
CopyStorage(schemas, storage, order) ==
  IF order = <<>> THEN schemas
  ELSE CopyStorage(CopyEntries(schemas, storage[Head(order)]), storage, Tail(order))

\* createDocument of zod-openapi on a document holding plain schema objects
\* only: they pass through as they are
createDocument(document) == document

\* document.components = document.components || {}, then
\* document.components.schemas = schemas
WithSchemas(base, schemas) ==
  LET components0 == IF "components" \in DOMAIN base THEN base.components ELSE EmptyMap
  IN [x \in (DOMAIN base) \cup {"components"} |->
        IF x = "components" THEN MapSet(components0, "schemas", schemas) ELSE base[x]]

\* document.components.schemas || {} of the document base
BaseSchemas(base) ==
  IF "components" \in DOMAIN base /\ "schemas" \in DOMAIN base.components
  THEN base.components.schemas
  ELSE EmptyMap

\* Faulty variant: the global registry is copied before the category maps.
createOpenApiDocumentGlobalFirst(st, base) ==
  [st |-> st,
   ret |-> WithSchemas(base, CopyStorage(CopyEntries(BaseSchemas(base), st.global),
                                         st.storage, StorageOrder))]

\* Faulty variant: only the global registry is copied.
createOpenApiDocumentGlobalOnly(st, base) ==
  [st |-> st, ret |-> WithSchemas(base, CopyEntries(BaseSchemas(base), st.global))]

\* Faulty variant: the category maps are emptied once they are copied.
createOpenApiDocumentDraining(st, base) ==
  [st |-> [st EXCEPT !.storage = [t \in SchemaType |-> EmptyMap]],
   ret |-> WithSchemas(base, CopyEntries(CopyStorage(BaseSchemas(base), st.storage,
                                                     StorageOrder), st.global))]

\* Faulty variant: components.schemas is started empty, the schemas of the base
\* document are dropped.
createOpenApiDocumentFresh(st, base) ==
  [st |-> st,
   ret |-> WithSchemas(base, CopyEntries(CopyStorage(EmptyMap, st.storage, StorageOrder),
                                         st.global))]

createOpenApiDocument(st, base) ==
  LET fromTypes == CopyStorage(BaseSchemas(base), st.storage, StorageOrder)
      fromGlobal == CopyEntries(fromTypes, st.global)
      document == WithSchemas(base, fromGlobal)
  IN [st |-> st, ret |-> createDocument(document)]

(***************************************************************************)
(* The structures, Zod schemas and base documents the calls are made on.   *)
(***************************************************************************)
Str == [type |-> "string"]

Obj(props) == [type |-> "object", properties |-> props]

ObjT(t, props) == [type |-> "object", title |-> t, properties |-> props]

Arr(items) == [type |-> "array", items |-> items]

ArrT(t, items) == [type |-> "array", title |-> t, items |-> items]

\* titled, without titled children
Address == ObjT("Address", << P("street", Str), P("city", Str) >>)

\* titled, with a titled child
User == ObjT("User", << P("name", Str), P("address", Address) >>)

\* untitled, with a titled child among its properties
Profile == Obj(<< P("address", Address), P("nick", Str) >>)

\* titled array of a titled structure that has a titled child of its own
UserList == ArrT("UserList", User)

\* a titled structure below an untitled one
Envelope == Obj(<< P("data", Obj(<< P("address", Address) >>)) >>)

\* a child that carries _def.openapi.id and no title
Tagged == Obj(<< P("meta", [type |-> "object", defId |-> "Meta"]) >>)

Structures == {Str, User, Profile, UserList, Envelope, Tagged}

Names == {"User", "UserList"}

\* the categories the calls pass: the first and a later category map, and
\* Other, the default and the one hoisted structures land in
CallTypes == {"Body", "Form", "Other"}

Zod(zid, schema) == [zid |-> zid, schema |-> schema, components |-> <<>>]

\* an untitled and a titled schema, an instance with _def.openapi.id, and one
\* whose conversion yields components.schemas and references them
ZodSchemas ==
  { Zod("zStr", Str), Zod("zUser", User),
    [zid |-> "zTagged", schema |-> Profile, components |-> <<>>, defId |-> "Tag"],
    [zid |-> "zShared", schema |-> Obj(<< P("shared", Ref("Shared")) >>),
     components |-> << [name |-> "Shared", schema |-> Str] >>] }

Paths == [users |-> [get |-> [responses |-> Ref("User")]]]

\* without components; with components but no schemas; with schemas, one of
\* them under a name the registry also uses
BaseDocuments ==
  { [paths |-> Paths],
    [paths |-> Paths, components |-> [securitySchemes |-> [bearer |-> Str]]],
    [paths |-> Paths,
     components |-> [schemas |-> [Legacy |-> Str, User |-> ObjT("User", <<>>)]]] }

\* a structure or one of its nested structures holds a $ref
RECURSIVE HasRef(_)
HasRef(obj) ==
  \/ IsRef(obj)
  \/ /\ "properties" \in DOMAIN obj
     /\ \E i \in DOMAIN obj.properties : HasRef(obj.properties[i].value)
  \/ /\ "items" \in DOMAIN obj
     /\ HasRef(obj.items)

(***************************************************************************)
(* State.  last is the call made last, with its arguments and its result   *)
(* (hit: the conversion was served from OPENAPI_CACHE; again: the call     *)
(* before was createOpenApiDocument on the same base document); calls      *)
(* counts the registering calls; refFree holds as long as no structure     *)
(* passed to or converted by a call held a $ref already.                   *)
(***************************************************************************)
VARIABLES SCHEMA_STORAGE, GLOBAL_SCHEMA_REGISTRY, OPENAPI_CACHE, last, calls, refFree

registryVars ==
  << SCHEMA_STORAGE, GLOBAL_SCHEMA_REGISTRY, OPENAPI_CACHE, last, calls, refFree >>

(***************************************************************************)
(* State of one response passing through a TypedRouteInterceptor:          *)
(* interceptor holds the schema it was constructed with; source is the     *)
(* state of the stream next.handle() ("open", "errored", "completed");     *)
(* observer is the subscriber of the Observable that intercept returns     *)
(* (isStopped once it was sent error or complete); emitted is what the     *)
(* handler's stream has sent so far, transmitted what the observer has     *)
(* been passed.                                                            *)
(***************************************************************************)
VARIABLES interceptor, source, observer, emitted, transmitted

routeVars == << interceptor, source, observer, emitted, transmitted >>

(***************************************************************************)
(* State of the decorators and of request handling.                        *)
(* PENDING_ROUTE_METADATA and CONTROLLER_PARAMS_STORAGE are the two Maps   *)
(* keyed by class name; metadata is what the framework's decorators        *)
(* (Controller, Get, ApiParam, ApiResponse, UseInterceptors and            *)
(* createParamDecorator) have attached to each class and method; loaded    *)
(* is how far the evaluation of each class definition has come; serving    *)
(* holds once the application is initialised; exchange is the request      *)
(* handled last, with what each parameter decorator made of it, and its    *)
(* response.                                                               *)
(***************************************************************************)
VARIABLES TYPED_SCHEMA_STORAGE, PENDING_ROUTE_METADATA, CONTROLLER_PARAMS_STORAGE,
          metadata, loaded, serving, exchange

appVars ==
  << TYPED_SCHEMA_STORAGE, PENDING_ROUTE_METADATA, CONTROLLER_PARAMS_STORAGE,
     metadata, loaded, serving, exchange >>

(***************************************************************************)
(* A query value and what a query schema makes of it: raw is the value     *)
(* handed to parse, parsed its outcome once parse has run.                 *)
(***************************************************************************)
VARIABLES raw, parsed

grammarVars == << raw, parsed >>

(***************************************************************************)
(* Two registries that receive the same registerSchemaRef calls, each      *)
(* under its own category arguments.                                       *)
(***************************************************************************)
VARIABLES runA, runB, runCalls

pairVars == << runA, runB, runCalls >>

vars == << registryVars, routeVars, appVars, grammarVars, pairVars >>

besidesRegistry == << routeVars, appVars, grammarVars, pairVars >>

besidesRoute == << registryVars, appVars, grammarVars, pairVars >>

Registry == [storage |-> SCHEMA_STORAGE, global |-> GLOBAL_SCHEMA_REGISTRY,
             cache |-> OPENAPI_CACHE]

InitRegistry ==
  /\ SCHEMA_STORAGE = [t \in SchemaType |-> EmptyMap]
  /\ GLOBAL_SCHEMA_REGISTRY = EmptyMap
  /\ OPENAPI_CACHE = EmptyMap
  /\ last = [op |-> "none"]
  /\ calls = 0
  /\ refFree = TRUE

Becomes(st) ==
  /\ SCHEMA_STORAGE' = st.storage
  /\ GLOBAL_SCHEMA_REGISTRY' = st.global
  /\ OPENAPI_CACHE' = st.cache

CallRegisterSchemaRef ==
  /\ calls < MaxCalls
  /\ \E name \in Names, schema \in Structures, type \in CallTypes :
       LET r == registerSchemaRef(Registry, name, schema, type) IN
       /\ Becomes(r.st)
       /\ last' = [op |-> "registerSchemaRef", name |-> name, schema |-> schema,
                   type |-> type, ret |-> r.ret, argument |-> r.argument]
       /\ refFree' = (refFree /\ ~HasRef(schema))
  /\ calls' = calls + 1
  /\ UNCHANGED besidesRegistry

CallGetOpenApiSchema ==
  /\ calls < MaxCalls
  /\ \E z \in ZodSchemas :
       LET r == getOpenApiSchema(Registry, z) IN
       /\ Becomes(r.st)
       /\ last' = [op |-> "getOpenApiSchema", zod |-> z, ret |-> r.ret,
                   hit |-> (z.zid \in DOMAIN OPENAPI_CACHE),
                   onEmpty |-> (GLOBAL_SCHEMA_REGISTRY = EmptyMap
                                /\ \A t \in SchemaType : SCHEMA_STORAGE[t] = EmptyMap)]
       /\ refFree' = (refFree /\ ~HasRef(z.schema))
  /\ calls' = calls + 1
  /\ UNCHANGED besidesRegistry

\* the reset between test cases: every category map and the global registry
\* are cleared, the conversion cache is not
ClearRegistries ==
  /\ SCHEMA_STORAGE' = [t \in SchemaType |-> EmptyMap]
  /\ GLOBAL_SCHEMA_REGISTRY' = EmptyMap
  /\ last' = [op |-> "clear"]
  /\ UNCHANGED << OPENAPI_CACHE, calls, refFree >>
  /\ UNCHANGED besidesRegistry

CallAutoRegisterSchema ==
  /\ calls < MaxCalls
  /\ \E z \in ZodSchemas, type \in CallTypes :
       LET r == autoRegisterSchema(Registry, z, type) IN
       /\ Becomes(r.st)
       /\ last' = [op |-> "autoRegisterSchema", zod |-> z, type |-> type, ret |-> r.ret]
       /\ refFree' = (refFree /\ ~HasRef(z.schema))
  /\ calls' = calls + 1
  /\ UNCHANGED besidesRegistry

CallRegisterSchema ==
  /\ calls < MaxCalls
  /\ \E z \in ZodSchemas, type \in CallTypes :
       LET r == registerSchema(Registry, z, type) IN
       /\ Becomes(r.st)
       /\ last' = [op |-> "registerSchema", zod |-> z, type |-> type, ret |-> r.ret]
       /\ refFree' = (refFree /\ ~HasRef(z.schema))
  /\ calls' = calls + 1
  /\ UNCHANGED besidesRegistry

CallCreateOpenApiDocument ==
  /\ \E base \in BaseDocuments :
       LET r == createOpenApiDocument(Registry, base) IN
       /\ Becomes(r.st)
       /\ last' = [op |-> "createOpenApiDocument", base |-> base, ret |-> r.ret,
                   again |-> (last.op = "createOpenApiDocument" /\ last.base = base)]
  /\ UNCHANGED << calls, refFree >>
  /\ UNCHANGED besidesRegistry

(***************************************************************************)
(* The response interceptor of TypedRoute.                                 *)
(* A value is a map from key to the kind of what it holds; an output       *)
(* schema is an object schema, a map from each declared key to the kind it *)
(* requires.  safeParse is the validation capability of zod on them: it    *)
(* succeeds when every declared key is there with the required kind, and   *)
(* its data keeps the declared keys only; otherwise its error lists one    *)
(* issue for every declared key that is missing or of another kind.        *)
(***************************************************************************)
\* values a handler emits per response
MaxEmitted == 3

safeParse(schema, value) ==
  LET bad == {k \in DOMAIN schema : k \notin DOMAIN value \/ value[k] # schema[k]}
  IN IF bad = {}
     THEN [success |-> TRUE, data |-> [k \in DOMAIN schema |-> value[k]]]
     ELSE [success |-> FALSE,
           error |-> [errors |-> {[path |-> << k >>, code |-> "invalid_type"] : k \in bad}]]

ZodValidationException(error) ==
  [exception |-> "ZodValidationException", statusCode |-> 400,
   message |-> "Validation failed", errors |-> error.errors]

ZodSerializationException(error) ==
  [exception |-> "ZodSerializationException", statusCode |-> 500,
   message |-> "Serialization failed", errors |-> error.errors]

\* observer.next, observer.error, observer.complete of the rxjs Subscriber:
\* nothing is passed on once it is stopped, error and complete stop it
observerNext(obs, out, value) ==
  IF obs.isStopped THEN [observer |-> obs, transmitted |-> out]
  ELSE [observer |-> obs, transmitted |-> Append(out, [kind |-> "next", value |-> value])]

observerError(obs, out, err) ==
  IF obs.isStopped THEN [observer |-> obs, transmitted |-> out]
  ELSE [observer |-> [isStopped |-> TRUE],
        transmitted |-> Append(out, [kind |-> "error", error |-> err])]

observerComplete(obs, out) ==
  IF obs.isStopped THEN [observer |-> obs, transmitted |-> out]
  ELSE [observer |-> [isStopped |-> TRUE],
        transmitted |-> Append(out, [kind |-> "complete"])]

\* Faulty variant: the value is passed on whatever the parse says.
interceptNextUnchecked(schema, obs, out, value) ==
  LET result == safeParse(schema, value)
  IN IF ~result.success
     THEN observerNext(obs, out, value)
     ELSE observerNext(obs, out, result.data)

\* Faulty variant: a value that satisfies the schema is passed on as the
\* handler returned it.
interceptNextRaw(schema, obs, out, value) ==
  LET result == safeParse(schema, value)
  IN IF ~result.success
     THEN observerError(obs, out, ZodSerializationException(result.error))
     ELSE observerNext(obs, out, value)

\* the next callback of intercept
interceptNext(schema, obs, out, value) ==
  LET result == safeParse(schema, value)
  IN IF ~result.success
     THEN observerError(obs, out, ZodSerializationException(result.error))
     ELSE observerNext(obs, out, result.data)

\* the error and complete callbacks of intercept
interceptError(obs, out, err) == observerError(obs, out, err)

interceptComplete(obs, out) == observerComplete(obs, out)

\* the output schemas of the routes, the values their handlers return and the
\* errors they raise
UserSchema == [id |-> "uuid", name |-> "string", password |-> "string"]

PublicUserSchema == [id |-> "uuid", name |-> "string"]

OutputSchemas == {UserSchema, PublicUserSchema}

validUser == [id |-> "uuid", name |-> "string", password |-> "string"]

\* an id that is a string but no uuid
faultyUser == [id |-> "string", name |-> "string", password |-> "string"]

HandlerValues ==
  { validUser, faultyUser,
    [id |-> "uuid", name |-> "string"],
    [id |-> "string", name |-> "string"],
    [name |-> "string"] }

HandlerErrors ==
  { [exception |-> "NotFoundException", statusCode |-> 404, message |-> "Not Found"],
    ZodValidationException([errors |-> {[path |-> << "id" >>, code |-> "invalid_type"]}]) }

InitRoute ==
  /\ interceptor \in {[schema |-> sch] : sch \in OutputSchemas}
  /\ source = "open"
  /\ observer = [isStopped |-> FALSE]
  /\ emitted = << >>
  /\ transmitted = << >>

\* the handler's stream sends a value
HandleNext ==
  /\ source = "open"
  /\ Len(emitted) < MaxEmitted
  /\ \E value \in HandlerValues :
       LET r == interceptNext(interceptor.schema, observer, transmitted, value) IN
       /\ emitted' = Append(emitted, [kind |-> "next", value |-> value])
       /\ observer' = r.observer
       /\ transmitted' = r.transmitted
  /\ UNCHANGED << interceptor, source >>
  /\ UNCHANGED besidesRoute

\* the handler's stream fails
HandleError ==
  /\ source = "open"
  /\ \E err \in HandlerErrors :
       LET r == interceptError(observer, transmitted, err) IN
       /\ emitted' = Append(emitted, [kind |-> "error", error |-> err])
       /\ observer' = r.observer
       /\ transmitted' = r.transmitted
  /\ source' = "errored"
  /\ UNCHANGED interceptor
  /\ UNCHANGED besidesRoute

\* the handler's stream completes
HandleComplete ==
  /\ source = "open"
  /\ LET r == interceptComplete(observer, transmitted) IN
       /\ observer' = r.observer
       /\ transmitted' = r.transmitted
  /\ emitted' = Append(emitted, [kind |-> "complete"])
  /\ source' = "completed"
  /\ UNCHANGED interceptor
  /\ UNCHANGED besidesRoute

(***************************************************************************)
(* Strings and values of the request side.                                 *)
(* A string is the sequence of its tokens: each of the separators ":",     *)
(* ",", ";", "/" and " " is a token of its own, every other token is a run *)
(* of characters that holds none of them.  A JS value is a record:         *)
(* Undefined, [string |-> s], [array |-> items] or [object |-> fields].    *)
(***************************************************************************)
\* tokens of a sorting query string
MaxSortLen == 4

\* tokens of a filter item
MaxFilterLen == 5

JsString(s) == [string |-> s]

JsArray(items) == [array |-> items]

IsUndefined(v) == "undefined" \in DOMAIN v

\* String.prototype.split(sep) for a one-token separator
RECURSIVE Split(_, _)
Split(s, sep) ==
  IF \A i \in 1..Len(s) : s[i] # sep THEN << s >>
  ELSE LET at == CHOOSE i \in 1..Len(s) : s[i] = sep /\ \A j \in 1..(i - 1) : s[j] # sep
       IN << SubSeq(s, 1, at - 1) >> \o Split(SubSeq(s, at + 1, Len(s)), sep)

\* String.prototype.trim
RECURSIVE Trim(_)
Trim(s) ==
  IF s = << >> THEN s
  ELSE IF s[1] = " " THEN Trim(Tail(s))
  ELSE IF s[Len(s)] = " " THEN Trim(SubSeq(s, 1, Len(s) - 1))
  ELSE s

\* Array.prototype.join of words, as the tokens of the joined string
RECURSIVE Join(_, _)
Join(words, sep) ==
  IF words = << >> THEN << >>
  ELSE IF Len(words) = 1 THEN << words[1] >>
  ELSE << words[1] >> \o sep \o Join(Tail(words), sep)

\* the result of a parse: the data, or the issues of the ZodError in order
ParseOk(data) == [success |-> TRUE, data |-> data]

ParseFail(issues) == [success |-> FALSE, error |-> [errors |-> issues]]

RECURSIVE Flatten(_)
Flatten(seqs) == IF seqs = << >> THEN << >> ELSE Head(seqs) \o Flatten(Tail(seqs))

(***************************************************************************)
(* sorting.ts                                                              *)
(***************************************************************************)
SortDirection == {<< "asc" >>, << "desc" >>}

\* /^[^:]+(?::(asc|desc))?$/
SortFormat(val) ==
  LET parts == Split(val, ":")
  IN \/ Len(parts) = 1 /\ parts[1] # << >>
     \/ Len(parts) = 2 /\ parts[1] # << >> /\ parts[2] \in SortDirection

\* SortingSchema(enabledKeys) on the object a sorting item was turned into
SortingSchema(enabledKeys, obj, path) ==
  LET propertyIssues ==
        IF \E i \in 1..Len(enabledKeys) : obj.property = << enabledKeys[i] >>
        THEN << >>
        ELSE << [code |-> "custom",
                 message |-> << "Invalid sorting property. Allowed properties are: " >>
                             \o Join(enabledKeys, << ",", " " >>),
                 path |-> path \o << "property" >>] >>
      directionIssues ==
        IF obj.direction \in SortDirection THEN << >>
        ELSE << [code |-> "invalid_enum_value",
                 message |-> << "Invalid sort direction. Use either \"asc\" or \"desc\"" >>,
                 path |-> path \o << "direction" >>] >>
  IN IF propertyIssues \o directionIssues = << >>
     THEN ParseOk(obj) ELSE ParseFail(propertyIssues \o directionIssues)

\* SortingStringSchema(enabledKeys) on one item: regex, transform, pipe
SortingStringSchema(enabledKeys, val, path) ==
  IF ~SortFormat(val)
  THEN ParseFail(<< [code |-> "invalid_string", validation |-> "regex",
                     message |-> << "Invalid sort format. Expected format: property[:asc|desc]" >>,
                     path |-> path] >>)
  ELSE LET parts == Split(val, ":")
           property == parts[1]
           direction == IF Len(parts) >= 2 THEN parts[2] ELSE << "asc" >>
       IN SortingSchema(enabledKeys, [property |-> property, direction |-> direction], path)

\* createSortingQueryStringSchema(enabledKeys).safeParse(val)
createSortingQueryStringSchema(enabledKeys, val) ==
  IF IsUndefined(val) THEN ParseOk(val)
  ELSE LET split == Split(val.string, ",")
           items == [i \in 1..Len(split) |-> Trim(split[i])]
           results == [i \in 1..Len(items) |->
                         SortingStringSchema(enabledKeys, items[i], << i - 1 >>)]
           issues == Flatten([i \in 1..Len(items) |->
                         IF results[i].success THEN << >> ELSE results[i].error.errors])
       IN IF issues = << >>
          THEN ParseOk(JsArray([i \in 1..Len(items) |-> results[i].data]))
          ELSE ParseFail(issues)

\* the allowed properties and the tokens the query strings are made of
SortKeys == << "email", "computedField" >>

SortStrings ==
  LET tokens == {"email", "computedField", "invalid", "asc", "desc", ":", ",", " "}
  IN UNION {[1..n -> tokens] : n \in 0..MaxSortLen}

Pending == [pending |-> TRUE]

ParseSorting ==
  /\ parsed = Pending
  /\ parsed' = createSortingQueryStringSchema(SortKeys, raw)
  /\ UNCHANGED raw
  /\ UNCHANGED << registryVars, routeVars, appVars, pairVars >>

(***************************************************************************)
(* filtering.ts and utils/schema.ts                                        *)
(***************************************************************************)
\* Object.values(FilterRule)
FilterRuleValues ==
  << "eq", "neq", "gt", "gte", "lt", "lte", "like", "nlike", "in", "nin",
     "isnull", "isnotnull" >>

FilterRule == {FilterRuleValues[i] : i \in 1..Len(FilterRuleValues)}

NullRules == {<< "isnull" >>, << "isnotnull" >>}

\* createLiteralUnion(keys, type): the value if it is one of the keys; the
\* catch callback throws a ZodError of one issue otherwise
createLiteralUnion(keys, type, input) ==
  IF \E i \in 1..Len(keys) : input = << keys[i] >>
  THEN ParseOk(input)
  ELSE ParseFail(<< [code |-> "custom",
                     path |-> << 0, "property" >>,
                     message |-> << "Invalid ", type, " property '" >> \o input
                                 \o << "'. Allowed properties are: " >>
                                 \o Join(keys, << ",", " " >>)] >>)

\* FilteringSchema(availableFilteringKeys) on the object an item was turned into
FilteringSchema(availableFilteringKeys, obj) ==
  LET property == createLiteralUnion(availableFilteringKeys, "filtering", obj.property)
  IN IF property.success THEN ParseOk(obj) ELSE property

\* the issues superRefine adds for a filter item
FilterItemIssues(value) ==
  LET parts == Split(value, ":")
      ruleKnown == Len(parts) >= 2 /\ \E r \in FilterRule : parts[2] = << r >>
  IN IF ~ruleKnown
     THEN << [code |-> "custom", path |-> << >>,
              message |-> << "Invalid filter rule. Expected one of: " >>
                          \o Join(FilterRuleValues, << ",", " " >>)] >>
     ELSE IF parts[2] \in NullRules
     THEN IF Len(parts) # 2
          THEN << [code |-> "custom", path |-> << >>,
                   message |-> << "IS_NULL and IS_NOT_NULL rules should not have a value" >>] >>
          ELSE << >>
     ELSE IF Len(parts) # 3
          THEN << [code |-> "custom", path |-> << >>,
                   message |-> << "Value is required for this filter rule" >>] >>
          ELSE << >>

\* Faulty variant: a value rule takes three parts or more.
FilteringStringItemSchemaAtLeast(availableFilteringKeys, value) ==
  LET parts == Split(value, ":")
      ruleKnown == Len(parts) >= 2 /\ \E r \in FilterRule : parts[2] = << r >>
  IN IF ~ruleKnown \/ (parts[2] \in NullRules /\ Len(parts) # 2)
        \/ (parts[2] \notin NullRules /\ Len(parts) < 3)
     THEN ParseFail(<< [code |-> "custom", path |-> << >>, message |-> << >>] >>)
     ELSE IF parts[2] \in NullRules
     THEN FilteringSchema(availableFilteringKeys,
                          [property |-> parts[1], rule |-> parts[2]])
     ELSE FilteringSchema(availableFilteringKeys,
                          [property |-> parts[1], rule |-> parts[2], value |-> parts[3]])

\* FilteringStringItemSchema(availableFilteringKeys).safeParse(value):
\* superRefine, then the transform and the pipe when there was no issue
FilteringStringItemSchema(availableFilteringKeys, value) ==
  LET issues == FilterItemIssues(value)
      parts == Split(value, ":")
  IN IF issues # << >> THEN ParseFail(issues)
     ELSE IF parts[2] \in NullRules
     THEN FilteringSchema(availableFilteringKeys,
                          [property |-> parts[1], rule |-> parts[2]])
     ELSE FilteringSchema(availableFilteringKeys,
                          [property |-> parts[1], rule |-> parts[2], value |-> parts[3]])

FILTER_KEYS == << "email", "age", "active" >>

FilterStrings ==
  LET tokens == {"email", "invalid", "eq", "isnull", "isnotnull", ":"}
  IN UNION {[1..n -> tokens] : n \in 0..MaxFilterLen}

ParseFilterItem ==
  /\ parsed = Pending
  /\ parsed' = FilteringStringItemSchema(FILTER_KEYS, raw.string)
  /\ UNCHANGED raw
  /\ UNCHANGED << registryVars, routeVars, appVars, pairVars >>

(***************************************************************************)
(* pagination.ts                                                           *)
(* A number is [nan |-> TRUE] or [floor |-> k, fraction |-> b]: the        *)
(* integer k when b is FALSE, a value strictly between k and k + 1 when b  *)
(* is TRUE.                                                                *)
(***************************************************************************)
\* tokens of a numeric query value
MaxDigits == 2

DEFAULT_OFFSET == 0

DEFAULT_PAGE_SIZE == 20

MAX_PAGE_SIZE == 100

MIN_PAGE_SIZE == 1

DigitValue == [d \in {"0", "1", "2"} |-> IF d = "0" THEN 0 ELSE IF d = "1" THEN 1 ELSE 2]

RECURSIVE DecimalValue(_)
DecimalValue(ds) ==
  IF ds = << >> THEN 0
  ELSE 10 * DecimalValue(SubSeq(ds, 1, Len(ds) - 1)) + DigitValue[ds[Len(ds)]]

NaN == [nan |-> TRUE]

IsNaN(n) == "nan" \in DOMAIN n

Integer(k) == [floor |-> k, fraction |-> FALSE]

\* Number(s) for a string of digits, "-" and "."
ToNumber(s) ==
  IF s = << >> THEN Integer(0)
  ELSE LET negative == s[1] = "-"
           body == IF negative THEN Tail(s) ELSE s
           parts == Split(body, ".")
           whole == parts[1]
           decimals == IF Len(parts) = 2 THEN parts[2] ELSE << >>
           IsDigits(ds) == \A i \in 1..Len(ds) : ds[i] \in DOMAIN DigitValue
           wellFormed == /\ Len(parts) <= 2
                         /\ IsDigits(whole) /\ IsDigits(decimals)
                         /\ whole \o decimals # << >>
           fraction == \E i \in 1..Len(decimals) : decimals[i] # "0"
           magnitude == DecimalValue(whole)
       IN IF ~wellFormed THEN NaN
          ELSE IF ~negative THEN [floor |-> magnitude, fraction |-> fraction]
          ELSE IF fraction THEN [floor |-> 0 - magnitude - 1, fraction |-> TRUE]
          ELSE Integer(0 - magnitude)

LessThan(n, bound) == n.floor < bound

GreaterThan(n, bound) == IF n.fraction THEN n.floor >= bound ELSE n.floor > bound

\* z.number().int().min(minimum).max(maximum) on a number; maximum is
\* Undefined where the chain has no max
NumberChecks(n, minimum, maximum, path) ==
  IF IsNaN(n)
  THEN ParseFail(<< [code |-> "invalid_type", expected |-> "number",
                     received |-> "nan", path |-> path] >>)
  ELSE LET issues ==
             (IF n.fraction
              THEN << [code |-> "invalid_type", expected |-> "integer",
                       received |-> "float", path |-> path] >>
              ELSE << >>)
             \o (IF LessThan(n, minimum)
                 THEN << [code |-> "too_small", minimum |-> minimum,
                          inclusive |-> TRUE, path |-> path] >>
                 ELSE << >>)
             \o (IF maximum # Undefined /\ GreaterThan(n, maximum.number)
                 THEN << [code |-> "too_big", maximum |-> maximum.number,
                          inclusive |-> TRUE, path |-> path] >>
                 ELSE << >>)
       IN IF issues = << >> THEN ParseOk(n) ELSE ParseFail(issues)

\* z.coerce.number().int().min(..).max(..).default(defaultValue) on a query
\* value.  Where the value is absent, zod 3 parses the default value with
\* the inner schema and zod 4 returns it as it is.
CoercedNumber(zod, value, minimum, maximum, defaultValue, path) ==
  IF IsUndefined(value)
  THEN IF zod = "v4" THEN ParseOk(Integer(defaultValue))
       ELSE NumberChecks(Integer(defaultValue), minimum, maximum, path)
  ELSE NumberChecks(ToNumber(value.string), minimum, maximum, path)

Option(options, key, fallback) ==
  IF key \in DOMAIN options THEN options[key] ELSE fallback

\* Faulty variant: the page size has no upper bound.
createPaginationQuerySchemaNoMax(options, zod, val) ==
  LET defaultPageSize == Option(options, "defaultPageSize", DEFAULT_PAGE_SIZE)
      minPageSize == Option(options, "minPageSize", MIN_PAGE_SIZE)
      query == IF IsUndefined(val) THEN [offset |-> Undefined, pageSize |-> Undefined]
               ELSE val.object
      offset == CoercedNumber(zod, query.offset, 0, Undefined, DEFAULT_OFFSET,
                              << "offset" >>)
      pageSize == CoercedNumber(zod, query.pageSize, minPageSize, Undefined,
                                defaultPageSize, << "pageSize" >>)
  IN IF offset.success /\ pageSize.success
     THEN ParseOk([offset |-> offset.data, pageSize |-> pageSize.data])
     ELSE ParseFail((IF offset.success THEN << >> ELSE offset.error.errors)
                    \o (IF pageSize.success THEN << >> ELSE pageSize.error.errors))

\* createPaginationQuerySchema(options).safeParse(val)
createPaginationQuerySchema(options, zod, val) ==
  LET defaultPageSize == Option(options, "defaultPageSize", DEFAULT_PAGE_SIZE)
      maxPageSize == Option(options, "maxPageSize", MAX_PAGE_SIZE)
      minPageSize == Option(options, "minPageSize", MIN_PAGE_SIZE)
      query == IF IsUndefined(val) THEN [offset |-> Undefined, pageSize |-> Undefined]
               ELSE val.object
      offset == CoercedNumber(zod, query.offset, 0, Undefined, DEFAULT_OFFSET,
                              << "offset" >>)
      pageSize == CoercedNumber(zod, query.pageSize, minPageSize,
                                [number |-> maxPageSize], defaultPageSize,
                                << "pageSize" >>)
  IN IF offset.success /\ pageSize.success
     THEN ParseOk([offset |-> offset.data, pageSize |-> pageSize.data])
     ELSE ParseFail((IF offset.success THEN << >> ELSE offset.error.errors)
                    \o (IF pageSize.success THEN << >> ELSE pageSize.error.errors))

\* the options the schemas are created with: none, the custom ones of the
\* tests, and a default page size above the maximum
PaginationOptions ==
  { [k \in {} |-> 0],
    [defaultPageSize |-> 5, maxPageSize |-> 10, minPageSize |-> 2],
    [defaultPageSize |-> 15, maxPageSize |-> 10, minPageSize |-> 2] }

\* request.query: absent, or offset and pageSize each absent or a string of
\* digits, "-" and "."
PaginationQueries ==
  LET tokens == {"0", "1", "2", "-", "."}
      values == {Undefined}
                \cup {JsString(s) : s \in UNION {[1..n -> tokens] : n \in 0..MaxDigits}}
  IN {Undefined} \cup {[object |-> [offset |-> o, pageSize |-> p]] : o, p \in values}

ParsePagination ==
  /\ parsed = Pending
  /\ parsed' = createPaginationQuerySchema(raw.options, raw.zod, raw.query)
  /\ UNCHANGED raw
  /\ UNCHANGED << registryVars, routeVars, appVars, pairVars >>

(***************************************************************************)
(* Two runs of the same registerSchemaRef calls.                           *)
(***************************************************************************)
EmptyRegistry ==
  [storage |-> [t \in SchemaType |-> EmptyMap], global |-> EmptyMap, cache |-> EmptyMap]

PairStructures == {Str, User, UserList}

InitPair ==
  /\ runA = EmptyRegistry
  /\ runB = EmptyRegistry
  /\ runCalls = 0

\* the same call in both runs, the category argument apart
PairRegisterSchemaRef ==
  /\ runCalls < MaxCalls
  /\ \E name \in Names, schema \in PairStructures, typeA \in CallTypes, typeB \in CallTypes :
       /\ runA' = registerSchemaRef(runA, name, schema, typeA).st
       /\ runB' = registerSchemaRef(runB, name, schema, typeB).st
  /\ runCalls' = runCalls + 1
  /\ UNCHANGED << registryVars, routeVars, appVars, grammarVars >>

(***************************************************************************)
(* The request side.                                                       *)
(* A Zod schema is a record: kind says how it validates and openapi is     *)
(* the structure generateSchema converts it to.  parse either returns the  *)
(* data, throws a ZodError, or lets an error through that a transform of   *)
(* the schema threw.                                                       *)
(***************************************************************************)
BadRequestException(message) ==
  [exception |-> "BadRequestException", statusCode |-> 400, message |-> message]

\* schema.safeParse(value), for the kinds of schema the decorators are given
RECURSIVE zodParse(_, _)
zodParse(schema, value) ==
  CASE schema.kind = "string" ->
         IF "string" \in DOMAIN value THEN ParseOk(value)
         ELSE ParseFail(<< [code |-> "invalid_type", expected |-> "string", path |-> << >>] >>)
    [] schema.kind = "uuid" ->
         IF "string" \notin DOMAIN value
         THEN ParseFail(<< [code |-> "invalid_type", expected |-> "string", path |-> << >>] >>)
         ELSE IF value.string \in schema.matching THEN ParseOk(value)
         ELSE ParseFail(<< [code |-> "invalid_string", validation |-> "uuid", path |-> << >>] >>)
    [] schema.kind = "boolean" ->
         IF "string" \in DOMAIN value /\ value.string \in {<< "true" >>, << "false" >>}
         THEN ParseOk([boolean |-> value.string = << "true" >>])
         ELSE ParseFail(<< [code |-> "invalid_enum_value", path |-> << >>] >>)
    [] schema.kind = "number" ->
         LET n == IF "string" \in DOMAIN value THEN ToNumber(value.string) ELSE NaN
         IN IF IsNaN(n)
            THEN ParseFail(<< [code |-> "invalid_type", expected |-> "number",
                               received |-> "nan", path |-> << >>] >>)
            ELSE LET issues ==
                       (IF schema.int /\ n.fraction
                        THEN << [code |-> "invalid_type", expected |-> "integer",
                                 received |-> "float", path |-> << >>] >>
                        ELSE << >>)
                       \o (IF schema.positive /\ ~GreaterThan(n, 0)
                           THEN << [code |-> "too_small", minimum |-> 0,
                                    inclusive |-> FALSE, path |-> << >>] >>
                           ELSE << >>)
                 IN IF issues = << >> THEN ParseOk(n) ELSE ParseFail(issues)
    [] schema.kind = "transform" ->
         IF "string" \notin DOMAIN value
         THEN ParseFail(<< [code |-> "invalid_type", expected |-> "string", path |-> << >>] >>)
         ELSE IF value.string \in schema.throwsOn
         THEN [success |-> FALSE,
               thrown |-> [exception |-> "Error", message |-> "transform failed"]]
         ELSE ParseOk([transformed |-> value.string])
    [] schema.kind = "optional" ->
         IF IsUndefined(value) THEN ParseOk(value) ELSE zodParse(schema.inner, value)
    [] schema.kind = "object" ->
         IF "object" \notin DOMAIN value
         THEN ParseFail(<< [code |-> "invalid_type", expected |-> "object", path |-> << >>] >>)
         ELSE LET shape == schema.shape
                  Under(key, issues) ==
                    [i \in 1..Len(issues) |-> [issues[i] EXCEPT !.path = << key >> \o @]]
                  results == [i \in 1..Len(shape) |->
                                zodParse(shape[i].value,
                                         IF shape[i].key \in DOMAIN value.object
                                         THEN value.object[shape[i].key] ELSE Undefined)]
                  thrown == {i \in 1..Len(shape) : "thrown" \in DOMAIN results[i]}
                  issues == Flatten([i \in 1..Len(shape) |->
                                       IF "error" \in DOMAIN results[i]
                                       THEN Under(shape[i].key, results[i].error.errors)
                                       ELSE << >>])
              IN IF thrown # {}
                 THEN results[CHOOSE i \in thrown : \A j \in thrown : i <= j]
                 ELSE IF issues # << >> THEN ParseFail(issues)
                 ELSE ParseOk([object |-> [i \in 1..Len(shape) |->
                                             [key |-> shape[i].key, value |-> results[i].data]]])
    [] schema.kind = "sorting" -> createSortingQueryStringSchema(schema.enabledKeys, value)
    [] schema.kind = "pagination" ->
         createPaginationQuerySchema(schema.options, schema.zod, value)

\* generateSchema of @anatine/zod-openapi
generateSchema(schema) == schema.openapi

\* z.string(), the fallback of extractParameterSchema and of paramConverters
ZString == [kind |-> "string", openapi |-> Str]

ZNumber(int, positive) ==
  [kind |-> "number", int |-> int, positive |-> positive,
   openapi |-> [type |-> IF int THEN "integer" ELSE "number"]]

validPostId == << "987fcdeb-51a2-43b5-a321-567890abcdef" >>

paramConverters ==
  [string |-> ZString,
   number |-> ZNumber(FALSE, FALSE),
   boolean |-> [kind |-> "boolean", openapi |-> [type |-> "string", enum |-> "true,false"]],
   uuid |-> [kind |-> "uuid", matching |-> {validPostId},
             openapi |-> [type |-> "string", format |-> "uuid"]],
   int |-> ZNumber(TRUE, FALSE),
   positiveInt |-> ZNumber(TRUE, TRUE)]

\* the string that the words make in a row
RECURSIVE Concat(_)
Concat(words) == IF words = << >> THEN "" ELSE Head(words) \o Concat(Tail(words))

\* registerSchema(name, schema, type) of typed-schema, on its SCHEMA_STORAGE;
\* the structures of generateSchema carry no _def, so that cleanupSchema
\* goes by their titles
typed_schema_registerSchema(storage, name, schema, type) ==
  LET hoisted == [storage EXCEPT !["Other"] = MapSetAll(@, cleanupWrites(schema, name))]
  IN [hoisted EXCEPT ![type] = MapSet(@, name, cleanupSchema(schema, name))]

\* registerNestedSchemas of the decorators, on the structures still to visit
RECURSIVE registerNestedSchemas(_, _, _)
registerNestedSchemas(storage, schemas, type) ==
  IF schemas = << >> THEN storage
  ELSE LET schema == Head(schemas)
           titled == IF HasTitle(schema)
                     THEN typed_schema_registerSchema(storage, schema.title, schema, type)
                     ELSE storage
           properties == IF "properties" \in DOMAIN schema THEN schema.properties ELSE << >>
           nested == SelectSeq([i \in 1..Len(properties) |-> properties[i].value],
                               LAMBDA v : ~IsRef(v))
           items == IF "items" \in DOMAIN schema /\ ~IsRef(schema.items)
                    THEN << schema.items >> ELSE << >>
       IN registerNestedSchemas(registerNestedSchemas(titled, nested \o items, type),
                                Tail(schemas), type)

\* extractParamNames(path): the matches of /:([^/]+)/g
RECURSIVE extractParamNames(_)
extractParamNames(path) ==
  LET colons == {i \in 1..(Len(path) - 1) : path[i] = ":" /\ path[i + 1] # "/"}
  IN IF colons = {} THEN << >>
     ELSE LET at == CHOOSE i \in colons : \A j \in colons : i <= j
              rest == SubSeq(path, at + 1, Len(path))
              len == CHOOSE n \in 1..Len(rest) :
                       /\ \A j \in 1..n : rest[j] # "/"
                       /\ n = Len(rest) \/ rest[n + 1] = "/"
          IN << Concat(SubSeq(rest, 1, len)) >>
             \o extractParamNames(SubSeq(rest, len + 1, Len(rest)))

extractParameterSchema(paramsSchema, paramName) ==
  IF IsUndefined(paramsSchema) \/ "shape" \notin DOMAIN paramsSchema THEN ZString
  ELSE LET declared == {i \in 1..Len(paramsSchema.shape) :
                          paramsSchema.shape[i].key = paramName}
       IN IF declared # {}
          THEN paramsSchema.shape[CHOOSE i \in declared : TRUE].value
          ELSE ZString

\* Faulty variant: the empty list is remembered for a class that has none.
getControllerParamsRemembering(storage, controllerClass) ==
  LET className == Concat(controllerClass.name)
  IN IF className \in DOMAIN storage
     THEN [storage |-> storage, ret |-> storage[className]]
     ELSE [storage |-> MapSet(storage, className, << >>), ret |-> << >>]

\* getControllerParams(controllerClass), with CONTROLLER_PARAMS_STORAGE as
\* the call leaves it
getControllerParams(storage, controllerClass) ==
  LET className == Concat(controllerClass.name)
  IN [storage |-> storage,
      ret |-> IF className \in DOMAIN storage THEN storage[className] ELSE << >>]

\* Faulty variant: a ZodError becomes a BadRequestException without issues.
ValidateGenericError(schema, value) ==
  LET Parse(result) ==
        IF result.success THEN [consulted |-> schema, returned |-> result.data]
        ELSE IF "error" \in DOMAIN result
        THEN [consulted |-> schema, thrown |-> BadRequestException("Validation failed")]
        ELSE [consulted |-> schema, thrown |-> result.thrown]
  IN Parse(zodParse(schema, value))

\* try { return schema.parse(value) } catch (err) { ... } of the parameter
\* decorators
Validate(schema, value) ==
  LET Parse(result) ==
        IF result.success THEN [consulted |-> schema, returned |-> result.data]
        ELSE IF "error" \in DOMAIN result
        THEN [consulted |-> schema, thrown |-> ZodValidationException(result.error)]
        ELSE [consulted |-> schema, thrown |-> result.thrown]
  IN Parse(zodParse(schema, value))

\* Faulty variant: a missing value is reported as a failed validation.
RejectsAsValidationFailure(message) ==
  [consulted |-> Undefined, thrown |-> ZodValidationException([errors |-> << >>])]

\* a parameter decorator that throws before it calls parse
Rejects(message) == [consulted |-> Undefined, thrown |-> BadRequestException(message)]

\* Faulty variant: a request without the header is taken for JSON.
isApplicationJsonOrAbsent(contentType) ==
  \/ IsUndefined(contentType)
  \/ \E i \in 1..Len(Split(contentType.string, ";")) :
       Trim(Split(contentType.string, ";")[i]) = << "application/json" >>

isApplicationJson(contentType) ==
  /\ ~IsUndefined(contentType)
  /\ \E i \in 1..Len(Split(contentType.string, ";")) :
       Trim(Split(contentType.string, ";")[i]) = << "application/json" >>

isFormUrlEncoded(contentType) ==
  /\ ~IsUndefined(contentType)
  /\ \E i \in 1..Len(Split(contentType.string, ";")) :
       Trim(Split(contentType.string, ";")[i]) = << "application/x-www-form-urlencoded" >>

\* Object.fromEntries(new URLSearchParams(body)): of a string 'k=v&k=v', of
\* an object of strings, of undefined
FormEntries(body) ==
  IF "object" \in DOMAIN body THEN body
  ELSE IF IsUndefined(body) \/ body.string = << >> THEN [object |-> << >>]
  ELSE LET pairs == Split(body.string, "&")
           key(i) == Concat(Split(pairs[i], "=")[1])
           value(i) == SubSeq(pairs[i], Len(Split(pairs[i], "=")[1]) + 2, Len(pairs[i]))
           final(k) == CHOOSE i \in 1..Len(pairs) :
                        key(i) = k /\ \A j \in 1..Len(pairs) : key(j) = k => j <= i
       IN [object |-> [k \in {key(i) : i \in 1..Len(pairs)} |-> JsString(value(final(k)))]]

\* request.params[name] and request.query[key]
Lookup(map, key) == IF key \in DOMAIN map THEN map[key] ELSE Undefined

\* parseQueryValue(value, isArray)
parseQueryValue(value, isArray) ==
  IF IsUndefined(value) THEN value
  ELSE IF isArray THEN (IF "array" \in DOMAIN value THEN value ELSE JsArray(<< value >>))
  ELSE IF "array" \in DOMAIN value THEN value.array[1] ELSE value

\* the callback a parameter decorator hands to createParamDecorator, on the
\* request: what it returns or throws, the schema it called parse of if it
\* did, and CONTROLLER_PARAMS_STORAGE as it leaves it
paramDecorator(storage, controllerClass, param, request) ==
  LET \* what the decorator does before it parses: the message of the
      \* BadRequestException it throws, or the schema and the value it parses
      extraction ==
        CASE param.decorator = "TypedParam" ->
               LET value == Lookup(request.params, param.name)
                   Find(runtimeControllerParams) ==
                     LET found == {i \in 1..Len(runtimeControllerParams.ret) :
                                     runtimeControllerParams.ret[i].name = param.name}
                     IN [storage |-> runtimeControllerParams.storage,
                         schema |->
                           IF found # {}
                           THEN runtimeControllerParams.ret[
                                  CHOOSE i \in found : \A j \in found : i <= j].schema
                           ELSE param.fallbackSchema,
                         value |-> value]
               IN IF IsUndefined(value)
                  THEN [storage |-> storage,
                        message |-> "Missing required parameter: " \o param.name]
                  ELSE Find(getControllerParams(storage, controllerClass))
          [] param.decorator = "createTypedParam" ->
               LET value == Lookup(request.params, param.name)
               IN IF IsUndefined(value)
                  THEN [storage |-> storage,
                        message |-> "Missing required parameter: " \o param.name]
                  ELSE [storage |-> storage, schema |-> param.schema, value |-> value]
          [] param.decorator = "TypedBody" ->
               IF ~isApplicationJson(Lookup(request.headers, "content-type"))
               THEN [storage |-> storage,
                     message |-> "Content-Type must be application/json"]
               ELSE [storage |-> storage, schema |-> param.schema, value |-> request.body]
          [] param.decorator = "TypedFormBody" ->
               IF ~isFormUrlEncoded(Lookup(request.headers, "content-type"))
               THEN [storage |-> storage,
                     message |-> "Content-Type must be application/x-www-form-urlencoded"]
               ELSE [storage |-> storage, schema |-> param.schema,
                     value |-> FormEntries(request.body)]
          [] param.decorator = "TypedQuery" ->
               LET Check(value) ==
                     IF IsUndefined(value) /\ ~param.optional
                     THEN [storage |-> storage,
                           message |-> "Missing required query parameter: " \o param.key]
                     ELSE [storage |-> storage, schema |-> param.querySchema,
                           value |-> value]
               IN Check(parseQueryValue(Lookup(request.query, param.key), FALSE))
          [] param.decorator = "TypedQueryObject" ->
               [storage |-> storage, schema |-> param.schema,
                value |-> [object |-> request.query]]
      Run(e) == [storage |-> e.storage,
                 outcome |-> IF "message" \in DOMAIN e THEN Rejects(e.message)
                             ELSE Validate(e.schema, e.value)]
  IN Run(extraction)

\* the parameter decorators of a method on one request, in turn: the
\* outcomes and CONTROLLER_PARAMS_STORAGE after them
RECURSIVE resolveParams(_, _, _, _)
resolveParams(storage, controllerClass, params, request) ==
  IF params = << >> THEN [storage |-> storage, outcomes |-> << >>]
  ELSE LET Then(first) ==
             LET After(others) == [storage |-> others.storage,
                                   outcomes |-> << first.outcome >> \o others.outcomes]
             IN After(resolveParams(first.storage, controllerClass, Tail(params), request))
       IN Then(paramDecorator(storage, controllerClass, Head(params), request))

(***************************************************************************)
(* The decorators at class definition.  w is what they read and write:     *)
(* the registry of openapi (registry), SCHEMA_STORAGE of typed-schema      *)
(* (typed), PENDING_ROUTE_METADATA (pending), CONTROLLER_PARAMS_STORAGE    *)
(* (controllerParams) and the metadata of the classes.  A class is         *)
(* [id, name, ...]: id is its identity, name the words of constructor.name.*)
(***************************************************************************)
\* registerSchema of typed-schema for each of the entries in turn
RECURSIVE registerEach(_, _, _)
registerEach(storage, entries, type) ==
  IF entries = << >> THEN storage
  ELSE registerEach(typed_schema_registerSchema(storage, Head(entries).name,
                                                Head(entries).schema, type),
                    Tail(entries), type)

\* the parameter decorators of a method, applied to the class in turn; now
\* is the value of Date.now()
RECURSIVE ParameterDecorators(_, _, _, _)
ParameterDecorators(w, class, decorators, now) ==
  IF decorators = << >> THEN w
  ELSE
    LET d == Head(decorators)
        attach(param) == [w.metadata EXCEPT ![class.id].params = Append(@, param)]
        document(name, schema) ==
          [name |-> name, required |-> TRUE, schema |-> schema]
        next ==
          CASE d.decorator = "TypedParam" ->
                 LET controllerParams == getControllerParams(w.controllerParams, class).ret
                     found == {i \in 1..Len(controllerParams) :
                                 controllerParams[i].name = d.name}
                     controllerParam ==
                       controllerParams[CHOOSE i \in found : \A j \in found : i <= j]
                     fallbackSchema ==
                       IF found # {} THEN controllerParam.schema
                       ELSE paramConverters[IF IsUndefined(d.type) THEN "string"
                                            ELSE d.type.string]
                     fallbackOpenApiSchema ==
                       IF found # {} THEN controllerParam.openApiSchema
                       ELSE generateSchema(fallbackSchema)
                 IN [w EXCEPT !.metadata =
                       [attach([decorator |-> "TypedParam", name |-> d.name,
                                fallbackSchema |-> fallbackSchema])
                          EXCEPT ![class.id].apiParams =
                            Append(@, document(d.name, fallbackOpenApiSchema))]]
            [] d.decorator = "createTypedParam" ->
                 [w EXCEPT !.metadata =
                    [attach([decorator |-> "createTypedParam", name |-> d.name,
                             schema |-> d.schema])
                       EXCEPT ![class.id].apiParams =
                         Append(@, document(d.name, generateSchema(d.schema)))]]
            [] d.decorator \in {"TypedBody", "TypedFormBody"} ->
                 [w EXCEPT !.registry =
                             autoRegisterSchema(@, d.schema,
                               IF d.decorator = "TypedBody" THEN "Body" ELSE "Form").st,
                           !.metadata = attach([decorator |-> d.decorator,
                                                schema |-> d.schema])]
            [] d.decorator = "TypedQuery" ->
                 LET querySchema ==
                       IF d.optional
                       THEN [kind |-> "optional", inner |-> d.schema,
                             openapi |-> d.schema.openapi]
                       ELSE d.schema
                     openApiSchema == generateSchema(querySchema)
                     schemaName == IF HasTitle(openApiSchema) THEN openApiSchema.title
                                   ELSE "Query_" \o d.key \o "_" \o now
                 IN [w EXCEPT !.typed =
                               typed_schema_registerSchema(
                                 registerNestedSchemas(@, << openApiSchema >>, "Query"),
                                 schemaName, openApiSchema, "Query"),
                             !.metadata = attach([decorator |-> "TypedQuery", key |-> d.key,
                                                  querySchema |-> querySchema,
                                                  optional |-> d.optional])]
            [] d.decorator = "TypedQueryObject" ->
                 LET openApiSchema == generateSchema(d.schema)
                     properties == IF "properties" \in DOMAIN openApiSchema
                                   THEN openApiSchema.properties ELSE << >>
                     schemaName == IF HasTitle(openApiSchema) THEN openApiSchema.title
                                   ELSE "QueryObject_" \o now
                     inline == SelectSeq(properties, LAMBDA p : ~IsRef(p.value))
                 IN [w EXCEPT !.typed =
                               registerEach(
                                 registerNestedSchemas(@, << openApiSchema >>, "Query"),
                                 [i \in 1..Len(inline) |->
                                    [name |-> schemaName \o "_" \o inline[i].key,
                                     schema |-> inline[i].value]],
                                 "Query"),
                             !.metadata = attach([decorator |-> "TypedQueryObject",
                                                  schema |-> d.schema])]
    IN ParameterDecorators(next, class, Tail(decorators), now)

\* Faulty variant: the method decorator records the pending entry and
\* registers the schema, and applies nothing to the method.
createRouteDecoratorDeferred(w, class, method, path, schema) ==
  LET controllerName == Concat(class.name)
      entry == [target |-> class.id, path |-> path, schema |-> schema, method |-> method]
      pending == MapSet(w.pending, controllerName,
                        Append(IF controllerName \in DOMAIN w.pending
                               THEN w.pending[controllerName] ELSE << >>, entry))
  IN [w EXCEPT !.pending = pending]

\* the decorator that TypedRoute[method](path, schema) returns, applied to
\* a method of the class
createRouteDecorator(w, class, method, path, schema) ==
  LET controllerName == Concat(class.name)
      entry == [target |-> class.id, path |-> path, schema |-> schema, method |-> method]
      pending == MapSet(w.pending, controllerName,
                        Append(IF controllerName \in DOMAIN w.pending
                               THEN w.pending[controllerName] ELSE << >>, entry))
      openApiSchema == generateSchema(schema)
      shown == IF IsUndefined(path) \/ path.string = << >> THEN << "default" >>
               ELSE [i \in 1..Len(path.string) |->
                       IF path.string[i] \in {":", "/"} THEN "_" ELSE path.string[i]]
      schemaName == IF HasTitle(openApiSchema) THEN openApiSchema.title
                    ELSE method \o "_" \o Concat(shown)
      \* ROUTERS[method](path), and with a schema the ApiResponse of its $ref
      \* and the interceptor
      routed == [w.metadata EXCEPT ![class.id].route =
                   IF IsUndefined(schema)
                   THEN [method |-> method, path |-> path, schema |-> schema]
                   ELSE [method |-> method, path |-> path, schema |-> schema,
                         response |-> [status |-> 200, schema |-> Ref(schemaName)]]]
  IN IF IsUndefined(schema)
     THEN [w EXCEPT !.pending = pending, !.metadata = routed]
     ELSE [w EXCEPT !.pending = pending,
                    !.typed = typed_schema_registerSchema(
                                registerNestedSchemas(@, << openApiSchema >>, "Route"),
                                schemaName, openApiSchema, "Route"),
                    !.metadata = routed]

\* Faulty variant: the processed routes stay in the pending table.
applyControllerParametersToRoutesKeeping(w, controllerName, controllerParams) ==
  IF controllerName \notin DOMAIN w.pending THEN w
  ELSE
    LET pendingRoutes == w.pending[controllerName]
        decorators ==
          [i \in 1..Len(controllerParams) |->
             [name |-> controllerParams[i].name, required |-> TRUE,
              schema |-> controllerParams[i].openApiSchema]]
        applied[k \in 0..Len(pendingRoutes)] ==
          IF k = 0 THEN w.metadata
          ELSE [applied[k - 1] EXCEPT ![pendingRoutes[k].target].apiParams = @ \o decorators]
    IN [w EXCEPT !.metadata = applied[Len(pendingRoutes)]]

\* applyControllerParametersToRoutes(controllerName, controllerParams)
applyControllerParametersToRoutes(w, controllerName, controllerParams) ==
  IF controllerName \notin DOMAIN w.pending THEN w
  ELSE
    LET pendingRoutes == w.pending[controllerName]
        decorators(route) ==
          [i \in 1..Len(controllerParams) |->
             [name |-> controllerParams[i].name, required |-> TRUE,
              schema |-> controllerParams[i].openApiSchema]]
          \o (IF IsUndefined(route.path) \/ route.path.string = << >> THEN << >>
              ELSE LET routeParams == extractParamNames(route.path.string)
                       uncovered == SelectSeq(routeParams,
                                      LAMBDA n : \A i \in 1..Len(controllerParams) :
                                                   controllerParams[i].name # n)
                   IN [i \in 1..Len(uncovered) |->
                         [name |-> uncovered[i], required |-> TRUE, schema |-> Str]])
        applied[k \in 0..Len(pendingRoutes)] ==
          IF k = 0 THEN w.metadata
          ELSE [applied[k - 1] EXCEPT ![pendingRoutes[k].target].apiParams =
                  @ \o decorators(pendingRoutes[k])]
    IN [w EXCEPT !.metadata = applied[Len(pendingRoutes)],
                 !.pending = [n \in DOMAIN w.pending \ {controllerName} |-> w.pending[n]]]

\* the decorator that TypedController(path, paramsSchema) returns, applied
\* to the class
TypedController(w, class, path, paramsSchema) ==
  LET paramNames == extractParamNames(path)
      controllerParams ==
        [i \in 1..Len(paramNames) |->
           LET paramSchema == extractParameterSchema(paramsSchema, paramNames[i])
           IN [name |-> paramNames[i], schema |-> paramSchema,
               openApiSchema |-> generateSchema(paramSchema)]]
      registered ==
        registerEach(w.typed,
                     [i \in 1..Len(paramNames) |->
                        [name |-> Concat(class.name) \o "_" \o paramNames[i],
                         schema |-> controllerParams[i].openApiSchema]],
                     "Other")
      stored == [w EXCEPT !.typed = registered,
                          !.controllerParams = MapSet(@, Concat(class.name), controllerParams)]
      routes == applyControllerParametersToRoutes(stored, Concat(class.name), controllerParams)
      controllerName ==
        IF Split(path, "/")[1] # << >> THEN Concat(Split(path, "/")[1])
        ELSE Concat(SelectSeq(class.name, LAMBDA word : word # "Controller"))
  IN [routes EXCEPT !.metadata[class.id].controller =
        [path |-> path, tags |-> IF controllerName # "" THEN << controllerName >> ELSE << >>]]

(***************************************************************************)
(* The classes of the application and the requests sent to them.           *)
(***************************************************************************)
CreateUserSchema ==
  [zid |-> "zCreateUser", components |-> << >>,
   schema |-> ObjT("CreateUserSchema", << P("name", Str), P("email", Str), P("meta", Str) >>),
   kind |-> "object",
   shape |-> << [key |-> "name", value |-> ZString], [key |-> "email", value |-> ZString],
                [key |-> "meta",
                 value |-> [kind |-> "optional", openapi |-> Str,
                            inner |-> [kind |-> "transform", throwsOn |-> {<< "{" >>},
                                       openapi |-> Str]]] >>]

FileUploadSchema ==
  [zid |-> "zFileUpload", components |-> << >>,
   schema |-> ObjT("FileUploadSchema", << P("file", Str), P("description", Str) >>),
   kind |-> "object",
   shape |-> << [key |-> "file", value |-> ZString],
                [key |-> "description",
                 value |-> [kind |-> "optional", inner |-> ZString, openapi |-> Str]] >>]

\* two classes named UserController that declare :id, one without and one
\* with a schema for it; two classes named TestController under a plain
\* Controller, one with routes of the framework and one with a TypedRoute;
\* a third class named UserController, under a plain Controller, with a
\* TypedRoute
ControllerClasses ==
  [c1 |->
     [id |-> "c1", name |-> << "User", "Controller" >>,
      decorator |-> "TypedController", path |-> << "users", "/", ":", "id" >>,
      paramsSchema |-> Undefined,
      params |-> << [decorator |-> "TypedParam", name |-> "id", type |-> Undefined] >>,
      route |-> [typed |-> TRUE, method |-> "Get", path |-> Undefined,
                 schema |-> [kind |-> "output", fields |-> PublicUserSchema,
                             openapi |-> Obj(<< P("id", Str), P("name", Str) >>)]]],
   c2 |->
     [id |-> "c2", name |-> << "User", "Controller" >>,
      decorator |-> "TypedController",
      path |-> << "users", "/", ":", "id", "/", "scores", "/", ":", "score" >>,
      paramsSchema |->
        [kind |-> "object", openapi |-> Obj(<< >>),
         shape |-> << [key |-> "id", value |-> paramConverters.positiveInt],
                      [key |-> "score", value |-> paramConverters.number] >>],
      params |-> << [decorator |-> "TypedParam", name |-> "id", type |-> Undefined],
                    [decorator |-> "TypedParam", name |-> "score", type |-> Undefined] >>,
      route |-> [typed |-> TRUE, method |-> "Get", path |-> JsString(<< >>),
                 schema |-> [kind |-> "output", fields |-> UserSchema,
                             openapi |-> ObjT("User", << P("id", Str), P("name", Str),
                                                         P("password", Str) >>)]]],
   c3 |->
     [id |-> "c3", name |-> << "Test", "Controller" >>,
      decorator |-> "Controller", path |-> << "typed-body" >>,
      params |-> << [decorator |-> "TypedBody", schema |-> CreateUserSchema],
                    [decorator |-> "TypedQuery", key |-> "q", optional |-> FALSE,
                     schema |-> paramConverters.positiveInt],
                    [decorator |-> "TypedQuery", key |-> "sort", optional |-> TRUE,
                     schema |-> [kind |-> "sorting", enabledKeys |-> SortKeys,
                                 openapi |-> [type |-> "string",
                                              title |-> "SortingQueryStringSchema"]]] >>,
      route |-> [typed |-> FALSE, method |-> "Post", path |-> Undefined,
                 schema |-> Undefined]],
   c4 |->
     [id |-> "c4", name |-> << "Test", "Controller" >>,
      decorator |-> "Controller", path |-> << "typed-param" >>,
      params |-> << [decorator |-> "createTypedParam", name |-> "code",
                     schema |-> [kind |-> "transform", throwsOn |-> {<< "{" >>},
                                 openapi |-> Str]],
                    [decorator |-> "TypedParam", name |-> "id",
                     type |-> [string |-> "uuid"]],
                    [decorator |-> "TypedFormBody", schema |-> FileUploadSchema],
                    [decorator |-> "TypedQueryObject",
                     schema |-> [kind |-> "pagination", zod |-> "v3",
                                 options |-> [defaultPageSize |-> 5, maxPageSize |-> 10,
                                              minPageSize |-> 2],
                                 openapi |-> Obj(<< P("offset", [type |-> "integer"]),
                                                    P("pageSize", [type |-> "integer"]) >>)]] >>,
      route |-> [typed |-> TRUE, method |-> "Post",
                 path |-> JsString(<< ":", "id", "/", ":", "code" >>),
                 schema |-> Undefined]],
   c5 |->
     [id |-> "c5", name |-> << "User", "Controller" >>,
      decorator |-> "Controller", path |-> << "users" >>,
      params |-> << [decorator |-> "TypedParam", name |-> "id", type |-> Undefined] >>,
      route |-> [typed |-> TRUE, method |-> "Get", path |-> JsString(<< ":", "id" >>),
                 schema |-> [kind |-> "output", fields |-> UserSchema,
                             openapi |-> ObjT("User", << P("id", Str), P("name", Str),
                                                         P("password", Str) >>)]]]]

\* the requests a client sends to the route of a class: for the classes of
\* several parameter decorators, a request that all of them accept and what
\* differs from it in the path parameters, in the header and the body, or
\* in the query
Requests(c) ==
  LET none == [k \in {} |-> Undefined]
      numbers == {JsString(<< "1", "2" >>), JsString(<< "a" >>), JsString(<< "-", "1" >>)}
      partial(keys) == UNION {[ks -> numbers] : ks \in SUBSET keys}
      header(types) == {none} \cup {[k \in {"content-type"} |-> JsString(t)] : t \in types}
      json == [k \in {"content-type"} |-> JsString(<< "application/json" >>)]
      form == [k \in {"content-type"} |->
                 JsString(<< "application/x-www-form-urlencoded" >>)]
      user == [object |-> [name |-> JsString(<< "John" >>),
                           email |-> JsString(<< "john@example.com" >>)]]
      file == JsString(<< "file", "=", "a", "&", "description", "=", "b" >>)
      search == [q |-> JsString(<< "1", "2" >>), sort |-> Undefined]
      page == [offset |-> Undefined, pageSize |-> Undefined]
      item == [id |-> JsString(validPostId), code |-> JsString(<< "a" >>)]
  IN CASE c \in {"c1", "c5"} ->
            {[params |-> p, query |-> none, headers |-> none, body |-> Undefined] :
               p \in partial({"id"})}
       [] c = "c2" ->
            {[params |-> p, query |-> none, headers |-> none, body |-> Undefined] :
               p \in partial({"id", "score"})}
       [] c = "c3" ->
            {[params |-> none, query |-> search, headers |-> h, body |-> b] :
               h \in header({<< "application/json" >>,
                             << "application/json", ";", " ", "charset=utf-8" >>,
                             << "text/plain" >>,
                             << "application/jsonp" >>}),
               b \in {Undefined, user, [object |-> [name |-> JsString(<< "John" >>)]],
                      [object |-> [name |-> JsString(<< "John" >>),
                                   email |-> JsString(<< "john@example.com" >>),
                                   meta |-> JsString(<< "{" >>)]]}}
            \cup
            {[params |-> none, query |-> [q |-> q, sort |-> o], headers |-> json,
              body |-> user] :
               q \in {Undefined, JsString(<< "1", "2" >>), JsString(<< "a" >>),
                      JsArray(<< JsString(<< "2" >>), JsString(<< "a" >>) >>)},
               o \in {Undefined, JsString(<< "email", ":", "desc" >>),
                      JsString(<< "invalid" >>)}}
       [] c = "c4" ->
            {[params |-> p, query |-> page, headers |-> form, body |-> file] :
               p \in {none, item, [item EXCEPT !.id = JsString(<< "a" >>)],
                      [item EXCEPT !.code = JsString(<< "{" >>)],
                      [id |-> JsString(<< "a" >>), code |-> JsString(<< "{" >>)]}}
            \cup
            {[params |-> item, query |-> page, headers |-> h, body |-> b] :
               h \in header({<< "application/x-www-form-urlencoded" >>,
                             << "application/json" >>,
                             << "multipart/form-data", ";", " ",
                                "application/x-www-form-urlencoded" >>}),
               b \in {Undefined, file, JsString(<< "description", "=", "b" >>),
                      [object |-> [file |-> JsString(<< "a" >>)]]}}
            \cup
            {[params |-> item, query |-> [page EXCEPT !.pageSize = JsString(n)],
              headers |-> form, body |-> file] :
               n \in {<< "2" >>, << "1", "2" >>}}

(***************************************************************************)
(* Class definition, start of the application, and requests.               *)
(***************************************************************************)
World ==
  [registry |-> Registry, typed |-> TYPED_SCHEMA_STORAGE,
   pending |-> PENDING_ROUTE_METADATA, controllerParams |-> CONTROLLER_PARAMS_STORAGE,
   metadata |-> metadata]

Settle(w) ==
  /\ Becomes(w.registry)
  /\ TYPED_SCHEMA_STORAGE' = w.typed
  /\ PENDING_ROUTE_METADATA' = w.pending
  /\ CONTROLLER_PARAMS_STORAGE' = w.controllerParams
  /\ metadata' = w.metadata

InitApp ==
  /\ TYPED_SCHEMA_STORAGE = [t \in {"Body", "Query", "Route", "Other"} |-> EmptyMap]
  /\ PENDING_ROUTE_METADATA = EmptyMap
  /\ CONTROLLER_PARAMS_STORAGE = EmptyMap
  /\ metadata = [c \in DOMAIN ControllerClasses |->
                   [params |-> << >>, apiParams |-> << >>, route |-> Undefined,
                    controller |-> Undefined]]
  /\ loaded = [c \in DOMAIN ControllerClasses |-> "none"]
  /\ serving = FALSE
  /\ exchange = [op |-> "none"]

\* a class definition is evaluated up to its class decorator: the parameter
\* decorators of the method, then its route decorator
DefineMethods ==
  /\ ~serving
  /\ \A d \in DOMAIN loaded : loaded[d] # "methods"
  /\ \E c \in DOMAIN loaded, now \in {"1700000000000", "1700000000001"} :
       LET class == ControllerClasses[c]
           route == class.route
           decorated == ParameterDecorators(World, class, class.params, now)
       IN /\ loaded[c] = "none"
          /\ Settle(IF route.typed
                    THEN createRouteDecorator(decorated, class, route.method, route.path,
                                              route.schema)
                    ELSE [decorated EXCEPT !.metadata[c].route =
                            [method |-> route.method, path |-> route.path,
                             schema |-> Undefined]])
          /\ loaded' = [loaded EXCEPT ![c] = "methods"]
  /\ UNCHANGED << last, calls, refFree, serving, exchange >>
  /\ UNCHANGED << routeVars, grammarVars, pairVars >>

\* the class decorator ends the class definition
DefineClass ==
  /\ \E c \in DOMAIN loaded :
       LET class == ControllerClasses[c]
       IN /\ loaded[c] = "methods"
          /\ Settle(IF class.decorator = "TypedController"
                    THEN TypedController(World, class, class.path, class.paramsSchema)
                    ELSE [World EXCEPT !.metadata[c].controller =
                            [path |-> class.path, tags |-> << >>]])
          /\ loaded' = [loaded EXCEPT ![c] = "class"]
  /\ UNCHANGED << last, calls, refFree, serving, exchange >>
  /\ UNCHANGED << routeVars, grammarVars, pairVars >>

\* app.init(): the classes defined so far serve requests
Bootstrap ==
  /\ ~serving
  /\ \A c \in DOMAIN loaded : loaded[c] # "methods"
  /\ \E c \in DOMAIN loaded : loaded[c] = "class"
  /\ serving' = TRUE
  /\ UNCHANGED << TYPED_SCHEMA_STORAGE, PENDING_ROUTE_METADATA, CONTROLLER_PARAMS_STORAGE,
                  metadata, loaded, exchange >>
  /\ UNCHANGED << registryVars, routeVars, grammarVars, pairVars >>

\* one request: every parameter decorator of the method runs, the method
\* body runs if none of them threw, and what it returns passes through the
\* interceptor of a TypedRoute with a schema; otherwise the client gets the
\* exception of one of those that threw
HandleRequest ==
  /\ serving
  /\ exchange.op = "none"
  /\ \E c \in DOMAIN loaded :
       /\ loaded[c] = "class"
       /\ \E request \in Requests(c) :
            LET route == metadata[c].route
                Transmit(passed) == interceptComplete(passed.observer,
                                                      passed.transmitted).transmitted
                Answer(resolved) ==
                  LET threw == {i \in 1..Len(resolved.outcomes) :
                                  "thrown" \in DOMAIN resolved.outcomes[i]}
                      answered == [op |-> "request", class |-> c, request |-> request,
                                   extracted |-> resolved.outcomes]
                  IN /\ CONTROLLER_PARAMS_STORAGE' = resolved.storage
                     /\ IF threw = {}
                        THEN \E value \in {validUser, faultyUser} :
                               exchange' =
                                 answered @@
                                 [handled |-> TRUE,
                                  response |->
                                    IF IsUndefined(route.schema)
                                    THEN << [kind |-> "next", value |-> value],
                                            [kind |-> "complete"] >>
                                    ELSE Transmit(interceptNext(route.schema.fields,
                                                                [isStopped |-> FALSE],
                                                                << >>, value))]
                        ELSE \E i \in threw :
                               exchange' =
                                 answered @@
                                 [handled |-> FALSE,
                                  response |-> << [kind |-> "error",
                                                   error |-> resolved.outcomes[i].thrown] >>]
            IN Answer(resolveParams(CONTROLLER_PARAMS_STORAGE, ControllerClasses[c],
                                    metadata[c].params, request))
  /\ UNCHANGED << TYPED_SCHEMA_STORAGE, PENDING_ROUTE_METADATA, metadata, loaded, serving >>
  /\ UNCHANGED << registryVars, routeVars, grammarVars, pairVars >>

\* the client has read the response, and may send the next request
Respond ==
  /\ serving
  /\ exchange.op = "request"
  /\ exchange' = [op |-> "none"]
  /\ UNCHANGED << TYPED_SCHEMA_STORAGE, PENDING_ROUTE_METADATA, CONTROLLER_PARAMS_STORAGE,
                  metadata, loaded, serving >>
  /\ UNCHANGED << registryVars, routeVars, grammarVars, pairVars >>

(***************************************************************************)
(* The specifications.                                                     *)
(***************************************************************************)
\* no response is in flight
InitIdle ==
  /\ interceptor = [schema |-> UserSchema]
  /\ source = "completed"
  /\ observer = [isStopped |-> TRUE]
  /\ emitted = << >>
  /\ transmitted = << >>

\* no query value is being parsed
InitNoQuery ==
  /\ raw = Undefined
  /\ parsed = Pending

\* the registry functions, called in any order
Init == InitRegistry /\ InitIdle /\ InitApp /\ InitNoQuery /\ InitPair

Next ==
  \/ CallRegisterSchemaRef
  \/ CallGetOpenApiSchema
  \/ CallAutoRegisterSchema
  \/ CallRegisterSchema
  \/ CallCreateOpenApiDocument

Spec == Init /\ [][Next]_vars

\* conversions and registrations with resets of the registries in between
NextReset ==
  \/ CallGetOpenApiSchema
  \/ CallAutoRegisterSchema
  \/ CallRegisterSchema
  \/ ClearRegistries

SpecReset == Init /\ [][NextReset]_vars

NextRoute ==
  \/ HandleNext
  \/ HandleError
  \/ HandleComplete

\* one response through the interceptor, the registry as constructed
InitResponse == InitRegistry /\ InitRoute /\ InitApp /\ InitNoQuery /\ InitPair

SpecRoute == InitResponse /\ [][NextRoute]_vars

\* a sorting query string through createSortingQueryStringSchema
InitSorting ==
  /\ InitRegistry /\ InitIdle /\ InitApp /\ InitPair
  /\ raw \in {Undefined} \cup {JsString(s) : s \in SortStrings}
  /\ parsed = Pending

SpecSorting == InitSorting /\ [][ParseSorting]_vars

\* a filter item through FilteringStringItemSchema
InitFiltering ==
  /\ InitRegistry /\ InitIdle /\ InitApp /\ InitPair
  /\ raw \in {JsString(s) : s \in FilterStrings}
  /\ parsed = Pending

SpecFiltering == InitFiltering /\ [][ParseFilterItem]_vars

\* a query object through createPaginationQuerySchema
InitPagination ==
  /\ InitRegistry /\ InitIdle /\ InitApp /\ InitPair
  /\ raw \in [options : PaginationOptions, zod : {"v3", "v4"}, query : PaginationQueries]
  /\ parsed = Pending

SpecPagination == InitPagination /\ [][ParsePagination]_vars

\* the same registerSchemaRef calls under two choices of categories
SpecCategories == Init /\ [][PairRegisterSchemaRef]_vars

\* the classes are defined, the application starts and serves requests
NextApp ==
  \/ DefineMethods
  \/ DefineClass
  \/ Bootstrap
  \/ HandleRequest
  \/ Respond

SpecApp == Init /\ [][NextApp]_vars



(***************************************************************************)
(* Properties of the registry.                                             *)
(***************************************************************************)
\* the nested structures of obj at every depth, obj itself excluded;
\* a $ref has none
RECURSIVE Nested(_)
Nested(obj) ==
  LET children ==
        (IF "properties" \in DOMAIN obj
         THEN {obj.properties[i].value : i \in DOMAIN obj.properties} ELSE {})
        \cup (IF "items" \in DOMAIN obj THEN {obj.items} ELSE {})
  IN IF IsRef(obj) THEN {}
     ELSE children \cup UNION {Nested(c) : c \in children}

\* the targets of the references obj holds, obj itself included
RefTargets(obj) == {RefTarget(r) : r \in {x \in {obj} \cup Nested(obj) : IsRef(x)}}

\* every value a category map or the global registry holds
StoredValues ==
  {GLOBAL_SCHEMA_REGISTRY[n] : n \in DOMAIN GLOBAL_SCHEMA_REGISTRY}
  \cup UNION {{SCHEMA_STORAGE[t][n] : n \in DOMAIN SCHEMA_STORAGE[t]} : t \in SchemaType}

\* stored is orig with some of its nested structures, or orig itself, replaced
\* by a reference to the title (or _def.openapi.id) they carry, this title
\* being another one than name
RECURSIVE EqualUpToReferences(_, _, _)
EqualUpToReferences(stored, orig, name) ==
  IF IsRef(orig) THEN stored = orig
  ELSE IF IsRef(stored)
  THEN \/ HasTitle(orig) /\ orig.title # name /\ stored = Ref(orig.title)
       \/ HasDefId(orig) /\ orig.defId # name /\ stored = Ref(orig.defId)
  ELSE /\ DOMAIN stored = DOMAIN orig
       /\ \A f \in DOMAIN orig \ {"properties", "items"} : stored[f] = orig[f]
       /\ "properties" \in DOMAIN orig =>
            /\ Len(stored.properties) = Len(orig.properties)
            /\ \A i \in DOMAIN orig.properties :
                 /\ stored.properties[i].key = orig.properties[i].key
                 /\ EqualUpToReferences(stored.properties[i].value,
                                        orig.properties[i].value, name)
       /\ "items" \in DOMAIN orig => EqualUpToReferences(stored.items, orig.items, name)

Children(obj) ==
  (IF "properties" \in DOMAIN obj
   THEN {[at |-> <<"properties", i>>, value |-> obj.properties[i].value] :
           i \in DOMAIN obj.properties}
   ELSE {})
  \cup (IF "items" \in DOMAIN obj THEN {[at |-> <<"items">>, value |-> obj.items]} ELSE {})

\* stored holds the value v at the position at
HoldsAt(stored, at, v) ==
  IF at[1] = "items"
  THEN "items" \in DOMAIN stored /\ stored.items = v
  ELSE /\ "properties" \in DOMAIN stored
       /\ at[2] \in DOMAIN stored.properties
       /\ stored.properties[at[2]].value = v

\* C2: hoisting of direct children.  After registerSchemaRef(name, S, category),
\* for every child of S (a property's value or the items) that carries a title
\* other than name: the value stored under name, in the category map and in the
\* global registry, holds at that position the reference to the title (or is as
\* a whole a reference), and the title is a key of the Other category map and
\* of the global registry.
C2_DirectChildrenHoisted ==
  last.op = "registerSchemaRef" =>
    \A c \in Children(last.schema) :
      (~IsRef(c.value) /\ HasTitle(c.value) /\ c.value.title # last.name) =>
        /\ \A stored \in {SCHEMA_STORAGE[last.type][last.name],
                          GLOBAL_SCHEMA_REGISTRY[last.name]} :
             IsRef(stored) \/ HoldsAt(stored, c.at, Ref(c.value.title))
        /\ c.value.title \in DOMAIN SCHEMA_STORAGE["Other"]
        /\ c.value.title \in DOMAIN GLOBAL_SCHEMA_REGISTRY

\* the titles of the structures nested in obj at every depth
NestedTitles(obj) == {x.title : x \in {y \in Nested(obj) : ~IsRef(y) /\ HasTitle(y)}}

\* C3: flat namespace at any depth.  After registerSchemaRef(name, S, category),
\* every titled structure nested in S at any depth has its title as a key of the
\* global registry, and no value the registry holds under name or under one of
\* these titles has nested in it a structure with a title other than its key.
C3_FlatNamespace ==
  last.op = "registerSchemaRef" =>
    /\ NestedTitles(last.schema) \subseteq DOMAIN GLOBAL_SCHEMA_REGISTRY
    /\ \A k \in ({last.name} \cup NestedTitles(last.schema))
                  \cap DOMAIN GLOBAL_SCHEMA_REGISTRY :
         NestedTitles(GLOBAL_SCHEMA_REGISTRY[k]) \subseteq {k}

SchemasOf(document) ==
  IF "components" \in DOMAIN document /\ "schemas" \in DOMAIN document.components
  THEN document.components.schemas
  ELSE EmptyMap

\* the names the category maps hold
CategoryNames == UNION {DOMAIN SCHEMA_STORAGE[t] : t \in SchemaType}

\* C5: assembly priority order.  In the document createOpenApiDocument returns,
\* the entry of every name the global registry holds is the global registry's
\* value, also when a category map holds another value under that name.
C5_GlobalTakesPrecedence ==
  last.op = "createOpenApiDocument" =>
    \A n \in DOMAIN GLOBAL_SCHEMA_REGISTRY :
      /\ n \in DOMAIN SchemasOf(last.ret)
      /\ SchemasOf(last.ret)[n] = GLOBAL_SCHEMA_REGISTRY[n]

\* a document assembled while a category map and the global registry hold
\* different values under one name
C5_Witness ==
  /\ last.op = "createOpenApiDocument"
  /\ \E t \in SchemaType :
       \E n \in DOMAIN SCHEMA_STORAGE[t] \cap DOMAIN GLOBAL_SCHEMA_REGISTRY :
         SCHEMA_STORAGE[t][n] # GLOBAL_SCHEMA_REGISTRY[n]

\* C6: assembly completeness.  The document createOpenApiDocument returns has
\* components.schemas, with an entry for every name of every category map and
\* of the global registry; when all of them are empty and the base document had
\* no schemas, components.schemas is the empty map.
C6_AssemblyComplete ==
  last.op = "createOpenApiDocument" =>
    /\ "components" \in DOMAIN last.ret
    /\ "schemas" \in DOMAIN last.ret.components
    /\ CategoryNames \cup DOMAIN GLOBAL_SCHEMA_REGISTRY \subseteq DOMAIN SchemasOf(last.ret)
    /\ (CategoryNames \cup DOMAIN GLOBAL_SCHEMA_REGISTRY = {} /\ SchemasOf(last.base) = EmptyMap)
         => last.ret.components.schemas = EmptyMap

\* a document assembled from a base without components.schemas while a category
\* map holds a name the global registry does not
C6_Witness ==
  /\ last.op = "createOpenApiDocument"
  /\ ~("components" \in DOMAIN last.base /\ "schemas" \in DOMAIN last.base.components)
  /\ CategoryNames \ DOMAIN GLOBAL_SCHEMA_REGISTRY # {}

\* C7: assembly is an idempotent, read-only reducer.  A call of
\* createOpenApiDocument leaves the category maps and the global registry as
\* they were, and returns the document the call before returned when that call
\* was createOpenApiDocument on the same base document.
C7_AssemblyIdempotentReadOnly ==
  [][ last'.op = "createOpenApiDocument" =>
        /\ SCHEMA_STORAGE' = SCHEMA_STORAGE
        /\ GLOBAL_SCHEMA_REGISTRY' = GLOBAL_SCHEMA_REGISTRY
        /\ (last.op = "createOpenApiDocument" /\ last.base = last'.base)
             => last'.ret = last.ret ]_vars

\* createOpenApiDocument called twice in a row on one base document, with a
\* registry that holds entries
C7_Witness ==
  /\ last.op = "createOpenApiDocument"
  /\ last.again
  /\ DOMAIN GLOBAL_SCHEMA_REGISTRY # {}
  /\ CategoryNames # {}

\* C8, as claimed: every components.schemas entry and the paths of the base
\* document are in the returned document, unchanged.
C8_BaseContentUnchanged ==
  last.op = "createOpenApiDocument" =>
    /\ last.ret.paths = last.base.paths
    /\ \A n \in DOMAIN SchemasOf(last.base) :
         /\ n \in DOMAIN SchemasOf(last.ret)
         /\ SchemasOf(last.ret)[n] = SchemasOf(last.base)[n]

\* C8, amended: the paths and every section of components other than schemas
\* are unchanged, every name of the base document's components.schemas is
\* still a name of the returned one, and its entry is unchanged unless a
\* category map or the global registry holds that name.
C8_BaseContentKept ==
  last.op = "createOpenApiDocument" =>
    /\ \A f \in DOMAIN last.base \ {"components"} :
         f \in DOMAIN last.ret /\ last.ret[f] = last.base[f]
    /\ "components" \in DOMAIN last.base =>
         \A f \in DOMAIN last.base.components \ {"schemas"} :
           f \in DOMAIN last.ret.components
           /\ last.ret.components[f] = last.base.components[f]
    /\ \A n \in DOMAIN SchemasOf(last.base) :
         /\ n \in DOMAIN SchemasOf(last.ret)
         /\ n \notin CategoryNames \cup DOMAIN GLOBAL_SCHEMA_REGISTRY
              => SchemasOf(last.ret)[n] = SchemasOf(last.base)[n]

\* a document assembled from a base document with schemas, one under a name the
\* registry holds and one under a name it does not hold
C8_Witness ==
  /\ last.op = "createOpenApiDocument"
  /\ \E n \in DOMAIN SchemasOf(last.base) : n \in DOMAIN GLOBAL_SCHEMA_REGISTRY
  /\ \E n \in DOMAIN SchemasOf(last.base) :
       n \notin CategoryNames \cup DOMAIN GLOBAL_SCHEMA_REGISTRY

(***************************************************************************)
(* Properties of autoRegisterSchema.                                       *)
(***************************************************************************)
\* the names by which the maps grow in a step
GainedIn(t) == DOMAIN SCHEMA_STORAGE'[t] \ DOMAIN SCHEMA_STORAGE[t]

GainedGlobal == DOMAIN GLOBAL_SCHEMA_REGISTRY' \ DOMAIN GLOBAL_SCHEMA_REGISTRY

\* C9, as claimed: autoRegisterSchema(schema, category) returns the converted
\* structure; with a title T, T is afterwards a key of the category map of
\* category and of the global registry; without a title, no category map and
\* not the global registry gain an entry.
C9_AutoRegisterByTitleOnly ==
  [][ last'.op = "autoRegisterSchema" =>
        /\ last'.ret = createSchema(last'.zod).schema
        /\ HasTitle(last'.ret) =>
             /\ last'.ret.title \in DOMAIN SCHEMA_STORAGE'[last'.type]
             /\ last'.ret.title \in DOMAIN GLOBAL_SCHEMA_REGISTRY'
        /\ ~HasTitle(last'.ret) =>
             /\ \A t \in SchemaType : GainedIn(t) = {}
             /\ GainedGlobal = {} ]_vars

\* the names of the components a conversion yields
ComponentNames(z) == {createSchema(z).components[i].name : i \in DOMAIN createSchema(z).components}

\* C9, amended: as claimed for the result and for a titled structure; without
\* a title, the only entries gained are those the conversion itself stores: the
\* schema's _def.openapi.id in Other and the global registry, the names of the
\* conversion's components in Other; a schema with neither gains none.
C9_AutoRegister ==
  [][ last'.op = "autoRegisterSchema" =>
        /\ last'.ret = createSchema(last'.zod).schema
        /\ HasTitle(last'.ret) =>
             /\ last'.ret.title \in DOMAIN SCHEMA_STORAGE'[last'.type]
             /\ last'.ret.title \in DOMAIN GLOBAL_SCHEMA_REGISTRY'
        /\ ~HasTitle(last'.ret) =>
             LET id == IF HasDefId(last'.zod) THEN {last'.zod.defId} ELSE {} IN
             /\ \A t \in SchemaType \ {"Other"} : GainedIn(t) = {}
             /\ GainedIn("Other") \subseteq id \cup ComponentNames(last'.zod)
             /\ GainedGlobal \subseteq id ]_vars

\* autoRegisterSchema was called on a titled schema with a category other than
\* the default
C9_Witness ==
  /\ last.op = "autoRegisterSchema"
  /\ HasTitle(last.ret)
  /\ last.type = "Form"
  /\ last.ret.title \in DOMAIN SCHEMA_STORAGE["Form"]


(***************************************************************************)
(* Properties of the response interceptor.                                 *)
(***************************************************************************)
\* the values the handler's stream has sent, in order
EmittedValues == SelectSeq(emitted, LAMBDA e : e.kind = "next")

\* the position of the first value the handler sent that violates the schema,
\* 0 when there is none
FirstViolation ==
  LET bad == {i \in DOMAIN EmittedValues :
                ~safeParse(interceptor.schema, EmittedValues[i].value).success}
  IN IF bad = {} THEN 0 ELSE CHOOSE i \in bad : \A j \in bad : i <= j

\* C10: response contract enforcement.  Every value passed on is the parsed
\* output of the value the handler sent at that position and satisfies the
\* schema; from the first value that violates the schema on, nothing the
\* handler sends is passed on, and the response fails with the
\* ZodSerializationException of that value: status 500, message 'Serialization
\* failed', the issues of the parse; it is not the ZodValidationException
\* (status 400) of the same issues.
C10_ResponseContractEnforced ==
  /\ \A i \in DOMAIN transmitted :
       transmitted[i].kind = "next" =>
         /\ safeParse(interceptor.schema, transmitted[i].value).success
         /\ i \in DOMAIN EmittedValues
         /\ safeParse(interceptor.schema, EmittedValues[i].value).success
         /\ transmitted[i].value = safeParse(interceptor.schema, EmittedValues[i].value).data
  /\ FirstViolation # 0 =>
       LET parse == safeParse(interceptor.schema, EmittedValues[FirstViolation].value)
           failure == transmitted[FirstViolation]
       IN /\ Len(transmitted) = FirstViolation
          /\ failure.kind = "error"
          /\ failure.error.exception = "ZodSerializationException"
          /\ failure.error.statusCode = 500
          /\ failure.error.message = "Serialization failed"
          /\ failure.error.errors = parse.error.errors
          /\ failure.error.errors # {}
          /\ failure.error # ZodValidationException(parse.error)

\* the handler sent a valid value, then a violating one, then a valid one again
C10_Witness ==
  /\ FirstViolation = 2
  /\ Len(EmittedValues) = 3
  /\ safeParse(interceptor.schema, EmittedValues[3].value).success
  /\ Len(transmitted) = 2

(***************************************************************************)
(* Properties of the query grammars.                                       *)
(***************************************************************************)
\* the tokens of message hold the tokens of s in a row
Mentions(message, s) ==
  \E i \in 1..(Len(message) - Len(s) + 1) : SubSeq(message, i, i + Len(s) - 1) = s

\* the items of a sorting query string and the parts of an item
SortItems(s) == [i \in 1..Len(Split(s, ",")) |-> Trim(Split(s, ",")[i])]

ItemParts(item) == Split(item, ":")

AllowedSortProperty(property) == \E k \in 1..Len(SortKeys) : property = << SortKeys[k] >>

\* C16: createSortingQueryStringSchema(allowed) maps a comma-separated
\* string of 'property[:asc|desc]' items to the list of {property, direction}
\* in input order, direction 'asc' when omitted; an item whose property is
\* not allowed is rejected with an issue that names the offending property
\* and lists the allowed ones; an item whose direction is neither asc nor
\* desc is rejected with the regex-format issue; undefined yields undefined.
C16_SortingGrammar ==
  parsed # Pending =>
    IF IsUndefined(raw) THEN parsed = ParseOk(Undefined)
    ELSE LET items == SortItems(raw.string)
             shaped(i) == /\ Len(ItemParts(items[i])) \in {1, 2}
                          /\ ItemParts(items[i])[1] # << >>
             directed(i) == Len(ItemParts(items[i])) = 2
             proper(i) == directed(i) => ItemParts(items[i])[2] \in {<< "asc" >>, << "desc" >>}
         IN /\ (\A i \in 1..Len(items) :
                   shaped(i) /\ proper(i) /\ AllowedSortProperty(ItemParts(items[i])[1]))
                 => /\ parsed.success
                    /\ Len(parsed.data.array) = Len(items)
                    /\ \A i \in 1..Len(items) :
                         /\ parsed.data.array[i].property = ItemParts(items[i])[1]
                         /\ parsed.data.array[i].direction =
                              IF directed(i) THEN ItemParts(items[i])[2] ELSE << "asc" >>
            /\ \A i \in 1..Len(items) :
                 shaped(i) /\ proper(i) /\ ~AllowedSortProperty(ItemParts(items[i])[1])
                 => /\ ~parsed.success
                    /\ \E k \in 1..Len(parsed.error.errors) :
                         LET issue == parsed.error.errors[k] IN
                         /\ issue.path = << i - 1, "property" >>
                         /\ Mentions(issue.message, ItemParts(items[i])[1])
                         /\ \A a \in 1..Len(SortKeys) : Mentions(issue.message, << SortKeys[a] >>)
            /\ \A i \in 1..Len(items) :
                 shaped(i) /\ ~proper(i)
                 => /\ ~parsed.success
                    /\ \E k \in 1..Len(parsed.error.errors) :
                         LET issue == parsed.error.errors[k] IN
                         /\ issue.path = << i - 1 >>
                         /\ issue.code = "invalid_string"
                         /\ issue.validation = "regex"

\* the k-th of the parts of s that its ":" tokens delimit
Colons(s) == {i \in 1..Len(s) : s[i] = ":"}

PartOf(s, k) ==
  LET starts == {0} \cup Colons(s)
      ends == Colons(s) \cup {Len(s) + 1}
      from == CHOOSE i \in starts : Cardinality({j \in starts : j < i}) = k - 1
      to == CHOOSE i \in ends : Cardinality({j \in ends : j < i}) = k - 1
  IN SubSeq(s, from + 1, to - 1)

FilterItemAccepted(s) ==
  LET count == Cardinality(Colons(s)) + 1
  IN /\ count >= 2
     /\ \E r \in FilterRule : PartOf(s, 2) = << r >>
     /\ \E k \in 1..Len(FILTER_KEYS) : PartOf(s, 1) = << FILTER_KEYS[k] >>
     /\ IF PartOf(s, 2) \in {<< "isnull" >>, << "isnotnull" >>}
        THEN count = 2 ELSE count = 3

\* C17: a filter item 'property:rule[:value]' is accepted only if rule is
\* one of the twelve rules, property is allowed, and the item has exactly 2
\* parts for isnull/isnotnull (the result has no value field) or exactly 3
\* for every other rule (the result carries the value); every other part
\* count yields a structured issue.
C17_FilterArity ==
  parsed # Pending =>
    LET s == raw.string IN
    /\ parsed.success <=> FilterItemAccepted(s)
    /\ parsed.success =>
         /\ parsed.data.property = PartOf(s, 1)
         /\ parsed.data.rule = PartOf(s, 2)
         /\ IF PartOf(s, 2) \in {<< "isnull" >>, << "isnotnull" >>}
            THEN "value" \notin DOMAIN parsed.data
            ELSE "value" \in DOMAIN parsed.data /\ parsed.data.value = PartOf(s, 3)
    /\ ~parsed.success =>
         /\ parsed.error.errors # << >>
         /\ \A k \in 1..Len(parsed.error.errors) :
              {"code", "message", "path"} \subseteq DOMAIN parsed.error.errors[k]

\* an item of a wrong part count was rejected, and one of each arity accepted
C17_Witness ==
  /\ parsed # Pending
  /\ raw.string \in { << "email", ":", "eq" >>,
                      << "email", ":", "isnull", ":", "email" >>,
                      << "email", ":", "eq", ":", ":" >> }
  /\ ~parsed.success

\* what the request supplies for a field, as a number
Supplied(field) == ~IsUndefined(raw.query) /\ ~IsUndefined(raw.query.object[field])

SuppliedNumber(field) == ToNumber(raw.query.object[field].string)

HasIssue(code, bound, boundValue, field) ==
  /\ ~parsed.success
  /\ \E k \in 1..Len(parsed.error.errors) :
       LET issue == parsed.error.errors[k] IN
       /\ issue.code = code
       /\ issue.path = << field >>
       /\ issue[bound] = boundValue

PaginationContract ==
  LET defaultPageSize == Option(raw.options, "defaultPageSize", DEFAULT_PAGE_SIZE)
      maxPageSize == Option(raw.options, "maxPageSize", MAX_PAGE_SIZE)
      minPageSize == Option(raw.options, "minPageSize", MIN_PAGE_SIZE)
  IN /\ (~Supplied("offset") /\ ~Supplied("pageSize"))
          => parsed = ParseOk([offset |-> Integer(0), pageSize |-> Integer(defaultPageSize)])
     /\ parsed.success =>
          /\ ~parsed.data.offset.fraction /\ parsed.data.offset.floor >= 0
          /\ ~parsed.data.pageSize.fraction
          /\ minPageSize <= parsed.data.pageSize.floor
          /\ parsed.data.pageSize.floor <= maxPageSize
     /\ (Supplied("pageSize") /\ ~IsNaN(SuppliedNumber("pageSize")))
          => /\ GreaterThan(SuppliedNumber("pageSize"), maxPageSize)
                  => HasIssue("too_big", "maximum", maxPageSize, "pageSize")
             /\ LessThan(SuppliedNumber("pageSize"), minPageSize)
                  => HasIssue("too_small", "minimum", minPageSize, "pageSize")
     /\ (Supplied("offset") /\ ~IsNaN(SuppliedNumber("offset"))
           /\ LessThan(SuppliedNumber("offset"), 0))
          => HasIssue("too_small", "minimum", 0, "offset")

\* C18 (as stated): for createPaginationQuerySchema({defaultPageSize,
\* maxPageSize, minPageSize}), no query parameters yield {offset: 0,
\* pageSize: defaultPageSize}; every accepted result has an integer offset
\* >= 0 and an integer pageSize within [minPageSize, maxPageSize]; a
\* pageSize out of these bounds or a negative offset is rejected with an
\* issue citing the bound.
C18_PaginationBounds == parsed # Pending => PaginationContract

SaneOptions ==
  /\ Option(raw.options, "minPageSize", MIN_PAGE_SIZE)
       <= Option(raw.options, "defaultPageSize", DEFAULT_PAGE_SIZE)
  /\ Option(raw.options, "defaultPageSize", DEFAULT_PAGE_SIZE)
       <= Option(raw.options, "maxPageSize", MAX_PAGE_SIZE)

\* C18 (amended): the same, for options with minPageSize <= defaultPageSize
\* <= maxPageSize.
C18_PaginationBoundsOfSaneOptions ==
  (parsed # Pending /\ SaneOptions) => PaginationContract

\* a page size above the custom maximum was rejected
C18_Witness ==
  /\ parsed # Pending
  /\ SaneOptions
  /\ "maxPageSize" \in DOMAIN raw.options
  /\ Supplied("pageSize")
  /\ ~IsNaN(SuppliedNumber("pageSize"))
  /\ GreaterThan(SuppliedNumber("pageSize"), raw.options.maxPageSize)
  /\ ~parsed.success

(***************************************************************************)
(* The category argument.                                                  *)
(***************************************************************************)
\* C19: two runs that perform the same registerSchemaRef calls and differ
\* only in the category arguments end with the same global registry and the
\* same components.schemas from createOpenApiDocument.
C19_CategoryOrganizationalOnly ==
  /\ runA.global = runB.global
  /\ \A base \in BaseDocuments :
       SchemasOf(createOpenApiDocument(runA, base).ret)
         = SchemasOf(createOpenApiDocument(runB, base).ret)

\* the two runs have filed the same registrations under different categories
C19_Witness ==
  /\ runCalls = MaxCalls
  /\ runA.storage # runB.storage
  /\ DOMAIN runA.global # {}

(***************************************************************************)
(* Properties of the parameter decorators on a request.                    *)
(***************************************************************************)
\* the value a parameter decorator hands to parse, read off the request
RawValue(param, request) ==
  CASE param.decorator \in {"TypedParam", "createTypedParam"} ->
         IF param.name \in DOMAIN request.params THEN request.params[param.name]
         ELSE Undefined
    [] param.decorator = "TypedBody" -> request.body
    [] param.decorator = "TypedFormBody" -> FormEntries(request.body)
    [] param.decorator = "TypedQuery" ->
         LET value == request.query[param.key]
         IN IF "array" \in DOMAIN value THEN value.array[1] ELSE value
    [] param.decorator = "TypedQueryObject" -> [object |-> request.query]

\* the schema a parameter decorator is bound to: the one it was given, and
\* for TypedParam the one it resolved on the request
BoundSchema(param, outcome) ==
  CASE param.decorator = "TypedParam" -> outcome.consulted
    [] param.decorator = "TypedQuery" -> param.querySchema
    [] OTHER -> param.schema

\* the parameters of the request in flight that reached parse: the index,
\* the decorator, its outcome and the result of parsing the raw value again
Parsed ==
  IF exchange.op # "request" THEN {}
  ELSE {[index |-> i,
         param |-> metadata[exchange.class].params[i],
         outcome |-> exchange.extracted[i],
         result |-> zodParse(BoundSchema(metadata[exchange.class].params[i],
                                         exchange.extracted[i]),
                             RawValue(metadata[exchange.class].params[i],
                                      exchange.request))] :
          i \in {j \in 1..Len(exchange.extracted) :
                   ~IsUndefined(exchange.extracted[j].consulted)}}

\* C11: when the value a TypedBody, TypedFormBody, TypedQuery,
\* TypedQueryObject or TypedParam decorator parses does not satisfy the
\* schema it is bound to, the decorator throws a ZodValidationException of
\* status 400 and message 'Validation failed' that carries the issues of the
\* parse, and the method body does not run; an error of the parse that is
\* no ZodError is thrown as it is, and the method body does not run either.
C11_ValidationFailure ==
  \A p \in Parsed :
    (p.param.decorator # "createTypedParam" /\ ~p.result.success) =>
      /\ ~exchange.handled
      /\ "thrown" \in DOMAIN p.outcome
      /\ IF "error" \in DOMAIN p.result
         THEN /\ p.result.error.errors # << >>
              /\ p.outcome.thrown = [exception |-> "ZodValidationException",
                                     statusCode |-> 400,
                                     message |-> "Validation failed",
                                     errors |-> p.result.error.errors]
         ELSE p.outcome.thrown = p.result.thrown

\* C11 witness: a request whose body fails the schema of TypedBody while the
\* query is accepted, and one whose body makes the schema throw an Error
C11_Witness ==
  \E p \in Parsed :
    /\ p.param.decorator = "TypedBody"
    /\ "error" \in DOMAIN p.result
    /\ \E q \in Parsed : q.param.decorator = "TypedQuery" /\ q.result.success

C11_WitnessRethrown ==
  \E p \in Parsed :
    /\ p.param.decorator = "TypedBody"
    /\ "thrown" \in DOMAIN p.result
    /\ p.outcome.thrown.exception = "Error"

\* the Content-Type header of the request lists the media type among its
\* parts between ';', white space around a part aside
ListsMediaType(request, mediaType) ==
  /\ "content-type" \in DOMAIN request.headers
  /\ \E part \in {Trim(Split(request.headers["content-type"].string, ";")[i]) :
                    i \in 1..Len(Split(request.headers["content-type"].string, ";"))} :
       part = mediaType

\* the body decorators of the request in flight with the media type of each
BodyDecorators ==
  IF exchange.op # "request" THEN {}
  ELSE {[outcome |-> exchange.extracted[i],
         mediaType |-> IF metadata[exchange.class].params[i].decorator = "TypedBody"
                       THEN << "application/json" >>
                       ELSE << "application/x-www-form-urlencoded" >>] :
          i \in {j \in 1..Len(exchange.extracted) :
                   metadata[exchange.class].params[j].decorator
                     \in {"TypedBody", "TypedFormBody"}}}

\* C12: TypedBody and TypedFormBody answer a request whose Content-Type
\* header is missing or does not list application/json, respectively
\* application/x-www-form-urlencoded, with a BadRequestException of status
\* 400, the method body does not run, and the body of such a request is
\* never parsed against the schema.
C12_ContentTypeBeforeParsing ==
  \A b \in BodyDecorators :
    ~ListsMediaType(exchange.request, b.mediaType) =>
      /\ IsUndefined(b.outcome.consulted)
      /\ "thrown" \in DOMAIN b.outcome
      /\ b.outcome.thrown.exception = "BadRequestException"
      /\ b.outcome.thrown.statusCode = 400
      /\ ~exchange.handled

\* C12 witness: a request of another media type whose body the schema of
\* TypedBody would have refused
C12_Witness ==
  /\ exchange.op = "request"
  /\ exchange.class = "c3"
  /\ "content-type" \in DOMAIN exchange.request.headers
  /\ ~ListsMediaType(exchange.request, << "application/json" >>)
  /\ ~zodParse(CreateUserSchema, exchange.request.body).success

\* the decorators of the request in flight that read one named value: the
\* decorator, the value, whether it may be absent, and the outcome
NamedValues ==
  IF exchange.op # "request" THEN {}
  ELSE {[param |-> metadata[exchange.class].params[i],
         value |-> RawValue(metadata[exchange.class].params[i], exchange.request),
         optional |-> /\ metadata[exchange.class].params[i].decorator = "TypedQuery"
                      /\ metadata[exchange.class].params[i].optional,
         outcome |-> exchange.extracted[i]] :
          i \in {j \in 1..Len(exchange.extracted) :
                   metadata[exchange.class].params[j].decorator
                     \in {"TypedParam", "createTypedParam", "TypedQuery"}}}

\* the message of the exception for a missing value
MissingMessage(param) ==
  IF param.decorator = "TypedQuery"
  THEN "Missing required query parameter: " \o param.key
  ELSE "Missing required parameter: " \o param.name

\* C13: TypedParam, createTypedParam and a TypedQuery that is not optional
\* answer an absent value with a BadRequestException of status 400 and
\* message 'Missing required (query) parameter: <name>' without consulting
\* the schema, and a present value that the schema refuses with a
\* ZodValidationException of status 400, message 'Validation failed' and
\* the issues; an optional TypedQuery yields undefined for an absent value.
C13_MissingVersusMismatching ==
  \A v \in NamedValues :
    IF IsUndefined(v.value)
    THEN IF v.optional
         THEN /\ "returned" \in DOMAIN v.outcome
              /\ IsUndefined(v.outcome.returned)
         ELSE /\ IsUndefined(v.outcome.consulted)
              /\ "thrown" \in DOMAIN v.outcome
              /\ v.outcome.thrown = [exception |-> "BadRequestException",
                                     statusCode |-> 400,
                                     message |-> MissingMessage(v.param)]
              /\ v.outcome.thrown.message # "Validation failed"
    ELSE LET result == zodParse(v.outcome.consulted, v.value)
         IN (~result.success /\ "error" \in DOMAIN result) =>
              /\ "thrown" \in DOMAIN v.outcome
              /\ v.outcome.thrown.exception = "ZodValidationException"
              /\ v.outcome.thrown.statusCode = 400
              /\ v.outcome.thrown.message = "Validation failed"
              /\ v.outcome.thrown.errors = result.error.errors
              /\ v.outcome.thrown.errors # << >>

\* C13 witness: one request with a missing path parameter and a present one
\* that its schema refuses
C13_Witness ==
  /\ \E v \in NamedValues : v.param.decorator = "TypedParam" /\ IsUndefined(v.value)
  /\ \E v \in NamedValues :
       /\ v.param.decorator = "TypedParam"
       /\ ~IsUndefined(v.value)
       /\ "thrown" \in DOMAIN v.outcome
       /\ v.outcome.thrown.message = "Validation failed"

\* C13, the optional case: the optional query value is absent
C13_WitnessOptional ==
  \E v \in NamedValues : v.optional /\ IsUndefined(v.value) /\ exchange.handled

(***************************************************************************)
(* Properties of the controller parameters.                                *)
(***************************************************************************)
\* the TypedParam decorators of the request in flight that name a
\* placeholder of the path of their TypedController and find a value: the
\* schema the controller declares for the name, the value and the outcome
ControllerLevel ==
  IF exchange.op # "request" THEN {}
  ELSE LET class == ControllerClasses[exchange.class]
           params == metadata[exchange.class].params
       IN IF class.decorator # "TypedController" THEN {}
          ELSE {[declared |-> extractParameterSchema(class.paramsSchema, params[i].name),
                 value |-> exchange.request.params[params[i].name],
                 outcome |-> exchange.extracted[i]] :
                  i \in {j \in 1..Len(params) :
                           /\ params[j].decorator = "TypedParam"
                           /\ params[j].name \in DOMAIN exchange.request.params
                           /\ \E k \in 1..Len(extractParamNames(class.path)) :
                                extractParamNames(class.path)[k] = params[j].name}}

\* C14: on a request, TypedParam(name) of a class under TypedController
\* validates and converts the value with the schema the controller declares
\* for name: it returns what that schema parses the value to, and throws an
\* exception of status 400 when that schema refuses the value.
C14_ControllerSchemaAtRequestTime ==
  \A v \in ControllerLevel :
    LET result == zodParse(v.declared, v.value)
    IN IF result.success
       THEN "returned" \in DOMAIN v.outcome /\ v.outcome.returned = result.data
       ELSE "thrown" \in DOMAIN v.outcome /\ v.outcome.thrown.statusCode = 400

\* what TypedController(path, paramsSchema) declares: one entry for each
\* placeholder of the path, in the order of the path
Declared(class) ==
  [i \in 1..Len(extractParamNames(class.path)) |->
     [name |-> extractParamNames(class.path)[i],
      schema |-> extractParameterSchema(class.paramsSchema,
                                        extractParamNames(class.path)[i])]]

\* C15: getControllerParams of a class that TypedController has decorated
\* returns one entry for each placeholder of the path of the controller, in
\* the order of the path, with the schema that paramsSchema declares for the
\* name or else a string schema; getControllerParams of a class that
\* TypedController does not decorate returns the empty list.
C15_ControllerParams ==
  \A c \in DOMAIN loaded :
    LET class == ControllerClasses[c]
        ret == getControllerParams(CONTROLLER_PARAMS_STORAGE, class).ret
    IN IF class.decorator = "TypedController"
       THEN loaded[c] = "class" =>
              /\ Len(ret) = Len(Declared(class))
              /\ \A i \in 1..Len(ret) :
                   /\ ret[i].name = Declared(class)[i].name
                   /\ ret[i].schema = Declared(class)[i].schema
       ELSE ret = << >>

Sent == emitted'[Len(emitted')]

\* the value holds every key the schema declares, with the declared type
Satisfies(value, schema) ==
  \A k \in DOMAIN schema : k \in DOMAIN value /\ value[k] = schema[k]

\* C30: for a value of the handler that satisfies the output schema the
\* interceptor hands the observer the value with the keys the schema
\* declares and no other, not the value as the handler returned it; an
\* error of the handler is handed on as it is, not as a
\* ZodSerializationException; completion is handed on after the values.
\* The observer passes each on unless it has been stopped before.
C30_TransparentBesidesValidation ==
  [][emitted' # emitted =>
       LET passed ==
             CASE Sent.kind = "next" ->
                    [kind |-> "next",
                     value |-> [k \in DOMAIN interceptor.schema |-> Sent.value[k]]]
               [] Sent.kind = "error" -> [kind |-> "error", error |-> Sent.error]
               [] Sent.kind = "complete" -> [kind |-> "complete"]
       IN (Sent.kind = "next" => Satisfies(Sent.value, interceptor.schema)) =>
            /\ transmitted' = IF observer.isStopped THEN transmitted
                              ELSE Append(transmitted, passed)
            /\ observer'.isStopped = (observer.isStopped \/ Sent.kind # "next")]_vars

\* C30 witness: a value with a key the schema does not declare went out
\* without it, then an error of the handler, a ZodValidationException, went
\* out as it was
C30_Witness ==
  /\ Len(emitted) = 2
  /\ emitted[1].kind = "next"
  /\ DOMAIN emitted[1].value # DOMAIN interceptor.schema
  /\ Satisfies(emitted[1].value, interceptor.schema)
  /\ emitted[2].kind = "error"
  /\ emitted[2].error.exception = "ZodValidationException"
  /\ Len(transmitted) = 2
  /\ DOMAIN transmitted[1].value = DOMAIN interceptor.schema
  /\ transmitted[2] = emitted[2]

C27_CategoriesWithinGlobal ==
  \A t \in SchemaType : DOMAIN SCHEMA_STORAGE[t] \subseteq DOMAIN GLOBAL_SCHEMA_REGISTRY

\* no direct child of the structure carries a title of its own
NoTitledChild(obj) == \A c \in Children(obj) : IsRef(c.value) \/ ~HasTitle(c.value)

\* C26: once autoRegisterSchema or registerSchema has stored under the
\* title T of a schema instance the structure whose titled children are
\* references, a getOpenApiSchema call on the same instance does not put
\* under T in the global registry a structure that holds a titled child
\* inline.
C26_CacheHitKeepsHoisted ==
  [][(/\ last.op \in {"autoRegisterSchema", "registerSchema"}
      /\ last'.op = "getOpenApiSchema"
      /\ last'.zod = last.zod
      /\ HasTitle(last.zod.schema)
      /\ last.zod.schema.title \in DOMAIN GLOBAL_SCHEMA_REGISTRY
      /\ NoTitledChild(GLOBAL_SCHEMA_REGISTRY[last.zod.schema.title]))
     => /\ last.zod.schema.title \in DOMAIN GLOBAL_SCHEMA_REGISTRY'
        /\ NoTitledChild(GLOBAL_SCHEMA_REGISTRY'[last.zod.schema.title])]_vars

(***************************************************************************)
(* The conversion cache.                                                   *)
(***************************************************************************)
\* the instance the call made in this step converts, and its id or title
Converted == last'.zod

ConvertedId ==
  IF "defId" \in DOMAIN Converted /\ Converted.defId # "" THEN Converted.defId
  ELSE IF HasTitle(last'.ret) THEN last'.ret.title
  ELSE ""

\* C21: getOpenApiSchema keeps the structure of the first conversion of a
\* schema instance and returns that structure on every later call with the
\* same instance; such a later call still stores it under the schema's id
\* or title in the Other category map and in the global registry, also
\* when both have been cleared in between, and leaves the cache as it is.
C21_MemoizedConversionRegisters ==
  [][(last'.op = "getOpenApiSchema" /\ calls' = calls + 1) =>
       IF Converted.zid \in DOMAIN OPENAPI_CACHE
       THEN /\ last'.ret = OPENAPI_CACHE[Converted.zid].schema
            /\ OPENAPI_CACHE' = OPENAPI_CACHE
            /\ ConvertedId # "" =>
                 /\ ConvertedId \in DOMAIN SCHEMA_STORAGE'["Other"]
                 /\ SCHEMA_STORAGE'["Other"][ConvertedId] = last'.ret
                 /\ ConvertedId \in DOMAIN GLOBAL_SCHEMA_REGISTRY'
                 /\ GLOBAL_SCHEMA_REGISTRY'[ConvertedId] = last'.ret
       ELSE /\ Converted.zid \in DOMAIN OPENAPI_CACHE'
            /\ OPENAPI_CACHE'[Converted.zid].schema = last'.ret]_vars

\* C21 witness: a titled schema that was converted before is converted
\* again on cleared registries, and its title is a key of the Other
\* category map and of the global registry again
C21_Witness ==
  /\ last.op = "getOpenApiSchema"
  /\ last.hit
  /\ last.onEmpty
  /\ HasTitle(last.ret)
  /\ last.ret.title \in DOMAIN SCHEMA_STORAGE["Other"]
  /\ last.ret.title \in DOMAIN GLOBAL_SCHEMA_REGISTRY

\* the structure the first conversion of the instance zid produced
FirstConversion(zid) == (CHOOSE z \in ZodSchemas : z.zid = zid).schema

EntriesOf(table, a) ==
  {e \in UNION {{table[n][i] : i \in DOMAIN table[n]} : n \in DOMAIN table} : e.target = a}

\* the controller parameters held for class a
ParamsOf(table, a) ==
  IF Concat(ControllerClasses[a].name) \in DOMAIN table
  THEN table[Concat(ControllerClasses[a].name)] ELSE << >>

\* the class decorator of b runs in this step
Decorates(b) == loaded[b] = "methods" /\ loaded'[b] = "class"

\* C23: the class decorator of a class B leaves the pending entries that
\* the methods of another class A recorded where they are, attaches no
\* documentation to A's methods, and leaves the controller parameters that
\* TypedController stored for A as they are.
C23_OwnerIsolation ==
  [][\A b \in DOMAIN ControllerClasses : Decorates(b) =>
       \A a \in DOMAIN ControllerClasses \ {b} :
         /\ EntriesOf(PENDING_ROUTE_METADATA', a) = EntriesOf(PENDING_ROUTE_METADATA, a)
         /\ metadata'[a] = metadata[a]
         /\ (loaded[a] = "class" /\ ControllerClasses[a].decorator = "TypedController")
              => ParamsOf(CONTROLLER_PARAMS_STORAGE', a) = ParamsOf(CONTROLLER_PARAMS_STORAGE, a)]_vars

\* C24: the pending entries of a class that TypedController is never
\* applied to, a class under the plain Controller decorator, stay in the
\* pending table: no step removes one of them.
C24_PendingEntriesLeak ==
  [][\A a \in DOMAIN ControllerClasses :
       ControllerClasses[a].decorator = "Controller" =>
         EntriesOf(PENDING_ROUTE_METADATA, a) \subseteq EntriesOf(PENDING_ROUTE_METADATA', a)]_vars

\* the parameter documentation that finalizing the route of class c
\* attaches: one entry for each placeholder of the controller path, with the
\* schema the class declares for it, then one for each placeholder of the
\* route path that is not among them
Finalized(c) ==
  LET class == ControllerClasses[c]
      ofController == extractParamNames(class.path)
      ofRoute == IF IsUndefined(class.route.path) THEN << >>
                 ELSE SelectSeq(extractParamNames(class.route.path.string),
                                LAMBDA n : \A i \in DOMAIN ofController : ofController[i] # n)
  IN [i \in DOMAIN ofController |->
        [name |-> ofController[i], required |-> TRUE,
         schema |-> extractParameterSchema(class.paramsSchema, ofController[i]).openapi]]
     \o [i \in DOMAIN ofRoute |-> [name |-> ofRoute[i], required |-> TRUE, schema |-> Str]]

\* the parameter decorators of class c that document their parameter
Documenting(c) ==
  SelectSeq(ControllerClasses[c].params,
            LAMBDA d : d.decorator \in {"TypedParam", "createTypedParam"})

\* C22: for a class C under TypedController, the entry its TypedRoute
\* recorded is in the pending table, not finalized, until the class
\* decorator of C has run; from then on, whatever class decorators run
\* later, the method carries the parameter documentation of the
\* placeholders of C exactly once, after that of its parameter decorators,
\* and the pending table holds no entry of C.
C22_ConsumedExactlyOnce ==
  \A c \in DOMAIN ControllerClasses :
    ControllerClasses[c].decorator = "TypedController" =>
      LET documented == metadata[c].apiParams
          own == Len(Documenting(c))
      IN /\ loaded[c] = "methods" =>
              /\ Cardinality(EntriesOf(PENDING_ROUTE_METADATA, c)) = 1
              /\ Len(documented) = own
         /\ loaded[c] = "class" =>
              /\ EntriesOf(PENDING_ROUTE_METADATA, c) = {}
              /\ Len(documented) = own + Len(Finalized(c))
              /\ SubSeq(documented, own + 1, Len(documented)) = Finalized(c)

\* C22 witness: two classes under TypedController that share a name have
\* both been defined, one after the other, and the application serves
C22_Witness ==
  /\ loaded["c1"] = "class"
  /\ loaded["c2"] = "class"
  /\ serving
  /\ Len(metadata["c1"].apiParams) = 2
  /\ Len(metadata["c2"].apiParams) = 4
  /\ metadata["c1"].apiParams[2].schema # metadata["c2"].apiParams[3].schema
  /\ EntriesOf(PENDING_ROUTE_METADATA, "c1") \cup EntriesOf(PENDING_ROUTE_METADATA, "c2") = {}

\* the classes whose method carries a TypedRoute
TypedRoutes == {c \in DOMAIN ControllerClasses : ControllerClasses[c].route.typed}

\* C25 (as stated): from the decoration of its method until the class
\* decorator of its class has run, a TypedRoute exists as a pending entry
\* only: nothing is attached to the method yet.
C25_DeferredFinalization ==
  \A c \in TypedRoutes :
    loaded[c] = "methods" =>
      /\ EntriesOf(PENDING_ROUTE_METADATA, c) # {}
      /\ IsUndefined(metadata[c].route)

\* C25 (amended): the method decorator of a TypedRoute attaches the route
\* and, with a schema, the response documentation of its $ref at once, and
\* records one pending entry beside it; of the documentation only that of
\* the path placeholders is deferred.  It is attached in the step in which
\* a TypedController class decorator processes the entry and removes it
\* from the pending table, a step that leaves what the method decorator
\* attached as it is.
C25_OnlyPlaceholdersDeferred ==
  [][\A c \in TypedRoutes :
       /\ (loaded[c] = "none" /\ loaded'[c] = "methods") =>
            /\ ~IsUndefined(metadata'[c].route)
            /\ metadata'[c].route.method = ControllerClasses[c].route.method
            /\ metadata'[c].route.path = ControllerClasses[c].route.path
            /\ ~IsUndefined(ControllerClasses[c].route.schema) =>
                 /\ "response" \in DOMAIN metadata'[c].route
                 /\ IsRef(metadata'[c].route.response.schema)
            /\ Cardinality(EntriesOf(PENDING_ROUTE_METADATA', c)) = 1
            /\ Len(metadata'[c].apiParams) = Len(Documenting(c))
       /\ loaded[c] # "none" =>
            /\ metadata'[c].route = metadata[c].route
            /\ metadata'[c].apiParams # metadata[c].apiParams =>
                 /\ EntriesOf(PENDING_ROUTE_METADATA, c) # {}
                 /\ EntriesOf(PENDING_ROUTE_METADATA', c) = {}
                 /\ \E b \in DOMAIN ControllerClasses :
                      Decorates(b) /\ ControllerClasses[b].decorator = "TypedController"]_vars

\* C25 witness: the TypedRoute of one class carries its route and response
\* documentation while its entry is pending, and the entry of another has
\* been processed and its placeholder documentation attached
C25_Witness ==
  /\ loaded["c2"] = "methods"
  /\ "response" \in DOMAIN metadata["c2"].route
  /\ EntriesOf(PENDING_ROUTE_METADATA, "c2") # {}
  /\ Len(metadata["c2"].apiParams) = Len(Documenting("c2"))
  /\ loaded["c1"] = "class"
  /\ EntriesOf(PENDING_ROUTE_METADATA, "c1") = {}
  /\ Len(metadata["c1"].apiParams) = Len(Documenting("c1")) + 1

====
